---- MODULE Spec2Model ----
(***************************************************************************)
(* Orbital-state conversions of Tudat: Keplerian <-> Unified State Model   *)
(* (unifiedStateModelElementConversions.cpp), the orbital element          *)
(* conversions exercised by testOrbitalElementConversions, and the thrust  *)
(* acceleration model.                                                     *)
(*                                                                         *)
(* Number model.  A double is an integer count of 1/Scale (fixed point);   *)
(* every arithmetic operation rounds its exact result to the nearest unit, *)
(* as an IEEE operation rounds to the nearest double.  NaN and the two     *)
(* infinities are sentinels that the F* operators propagate as IEEE does   *)
(* (signed zeros are not distinguished).  An angle is an integer count of  *)
(* steps of pi/8 (22.5 degrees): sin and cos are tabulated at the steps,   *)
(* and acos/atan2 return the step whose cosine (direction) is nearest to   *)
(* the argument, NaN outside [-1, 1].                                      *)
(***************************************************************************)
EXTENDS Integers, Sequences, FiniteSets, TLC

(* ---------------------------------------------------------------------- *)
(* Fixed-point doubles                                                     *)
(* ---------------------------------------------------------------------- *)

Scale == 10 ^ 3

One == Scale

NaN == -(2 ^ 30)

Inf == (2 ^ 30) - 1

IsNaN(x) == x = NaN

IsInf(x) == x = Inf \/ x = -Inf

IsFinite(x) == ~IsNaN(x) /\ ~IsInf(x)

Sign(x) == IF x < 0 THEN -1 ELSE IF x > 0 THEN 1 ELSE 0

Abs(x) == IF x < 0 THEN -x ELSE x

\* n / d rounded to the nearest integer, halves away from zero (d # 0).
RDiv(n, d) ==
    LET an == Abs(n)
        ad == Abs(d)
        q  == (2 * an + ad) \div (2 * ad)
    IN  Sign(n) * Sign(d) * q

RECURSIVE ISqrtSearch(_, _, _)
\* Largest r in lo..hi with r * r <= n (lo * lo <= n < (hi + 1) * (hi + 1)).
ISqrtSearch(n, lo, hi) ==
    IF lo >= hi THEN lo
    ELSE LET mid == (lo + hi + 1) \div 2
         IN  IF mid * mid <= n THEN ISqrtSearch(n, mid, hi)
             ELSE ISqrtSearch(n, lo, mid - 1)

\* sqrt(n) rounded to the nearest integer, 0 <= n < 2^31.
ISqrt(n) ==
    LET r == ISqrtSearch(n, 0, 46340)
    IN  IF n - r * r > r THEN r + 1 ELSE r

FNeg(a) == IF IsNaN(a) THEN NaN ELSE -a

FAdd(a, b) ==
    IF IsNaN(a) \/ IsNaN(b) THEN NaN
    ELSE IF IsInf(a) THEN (IF b = -a THEN NaN ELSE a)
    ELSE IF IsInf(b) THEN b
    ELSE a + b

FSub(a, b) == FAdd(a, FNeg(b))

FMul(a, b) ==
    IF IsNaN(a) \/ IsNaN(b) THEN NaN
    ELSE IF IsInf(a) \/ IsInf(b)
         THEN (IF a = 0 \/ b = 0 THEN NaN ELSE Sign(a) * Sign(b) * Inf)
    ELSE RDiv(a * b, Scale)

FDiv(a, b) ==
    IF IsNaN(a) \/ IsNaN(b) THEN NaN
    ELSE IF IsInf(a) THEN (IF IsInf(b) THEN NaN
                           ELSE IF b < 0 THEN -a ELSE a)
    ELSE IF IsInf(b) THEN 0
    ELSE IF b = 0 THEN (IF a = 0 THEN NaN ELSE Sign(a) * Inf)
    ELSE RDiv(a * Scale, b)

FSqrt(a) ==
    IF IsNaN(a) \/ a < 0 THEN NaN
    ELSE IF a = Inf THEN Inf
    ELSE ISqrt(a * Scale)

FAbs(a) == IF IsNaN(a) THEN NaN ELSE Abs(a)

\* a < b on doubles: false when either side is NaN.
FLt(a, b) == ~IsNaN(a) /\ ~IsNaN(b) /\ a < b

FGt(a, b) == FLt(b, a)

(* ---------------------------------------------------------------------- *)
(* Angles and the trigonometric functions of <cmath>                       *)
(* ---------------------------------------------------------------------- *)

\* sin at 0, 22.5, 45, 67.5 and 90 degrees, in units of 1/Scale.
SinTable == <<0, 383, 707, 924, 1000>>

HalfPI == Len(SinTable) - 1

PI == 2 * HalfPI

TwoPI == 2 * PI

\* One angle step (pi/8) in radians, in units of 1/Scale.
StepRadians == RDiv(3142, PI)

\* The value in radians of an angle held in steps.
Radians(x) == IF IsNaN(x) THEN NaN ELSE x * StepRadians

sin(x) ==
    IF IsNaN(x) THEN NaN
    ELSE LET m == x % TwoPI
         IN  IF m <= HalfPI THEN SinTable[m + 1]
             ELSE IF m <= PI THEN SinTable[PI - m + 1]
             ELSE IF m <= PI + HalfPI THEN -SinTable[m - PI + 1]
             ELSE -SinTable[TwoPI - m + 1]

cos(x) == IF IsNaN(x) THEN NaN ELSE sin(x + HalfPI)

RECURSIVE NearestCosine(_, _, _)
\* The angle among best and k..PI whose cosine is nearest to y (the
\* smallest such angle when two are equally near).
NearestCosine(y, k, best) ==
    IF k > PI THEN best
    ELSE NearestCosine(y, k + 1,
            IF Abs(cos(k) - y) < Abs(cos(best) - y) THEN k ELSE best)

\* std::acos: NaN outside [-1, 1], otherwise the angle of [0, pi] whose
\* cosine is nearest to the argument.
acos(y) ==
    IF IsNaN(y) \/ y > One \/ y < -One THEN NaN
    ELSE NearestCosine(y, 1, 0)

\* The projection of (c, s) on the direction of angle k.
Projection(s, c, k) == c * cos(k) + s * sin(k)

RECURSIVE NearestDirection(_, _, _, _)
\* The angle among best and k..PI on whose direction (c, s) projects most.
NearestDirection(s, c, k, best) ==
    IF k > PI THEN best
    ELSE NearestDirection(s, c, k + 1,
            IF Projection(s, c, k) > Projection(s, c, best)
            THEN k ELSE best)

\* std::atan2: the angle of (-pi, pi] whose direction is nearest to (c, s).
atan2(s, c) ==
    IF IsNaN(s) \/ IsNaN(c) THEN NaN
    ELSE IF s = 0 /\ c = 0 THEN 0
    ELSE NearestDirection(s, c, 2 - PI, 1 - PI)

\* 0.5 * x for an angle.
HalfAngle(x) == IF IsNaN(x) THEN NaN ELSE x \div 2

(* ---------------------------------------------------------------------- *)
(* State vector indices (stateVectorIndices.h)                             *)
(* ---------------------------------------------------------------------- *)

semiMajorAxisIndex == "semiMajorAxis"

\* The semi-latus rectum of a parabolic orbit is stored in the slot of the
\* semi-major axis: the Keplerian vector has six components.
semiLatusRectumIndex == semiMajorAxisIndex

eccentricityIndex == "eccentricity"

inclinationIndex == "inclination"

argumentOfPeriapsisIndex == "argumentOfPeriapsis"

longitudeOfAscendingNodeIndex == "longitudeOfAscendingNode"

trueAnomalyIndex == "trueAnomaly"

CHodographIndex == "CHodograph"

Rf1HodographIndex == "Rf1Hodograph"

Rf2HodographIndex == "Rf2Hodograph"

epsilon1QuaternionIndex == "epsilon1Quaternion"

epsilon2QuaternionIndex == "epsilon2Quaternion"

epsilon3QuaternionIndex == "epsilon3Quaternion"

etaQuaternionIndex == "etaQuaternion"

KeplerianIndices ==
    {semiMajorAxisIndex, eccentricityIndex, inclinationIndex,
     argumentOfPeriapsisIndex, longitudeOfAscendingNodeIndex, trueAnomalyIndex}

UnifiedStateModelIndices ==
    {CHodographIndex, Rf1HodographIndex, Rf2HodographIndex,
     epsilon1QuaternionIndex, epsilon2QuaternionIndex,
     epsilon3QuaternionIndex, etaQuaternionIndex}

\* The components of a Unified State Model vector in the order of their
\* positions.
UnifiedStateModelOrder ==
    <<CHodographIndex, Rf1HodographIndex, Rf2HodographIndex,
      epsilon1QuaternionIndex, epsilon2QuaternionIndex,
      epsilon3QuaternionIndex, etaQuaternionIndex>>

\* The position an index names in its vector, counted from 0.
IndexValue(order, ix) == (CHOOSE k \in 1..Len(order) : order[k] = ix) - 1

\* basic_mathematics::Vector6d, the type of every vector the conversions
\* take and return, holds six doubles whatever size Zero( ) is given.
Vector6dSize == 6

\* The positions that exist in a Vector6d.
Vector6dPositions == 0..(Vector6dSize - 1)

\* The components among indices that lie outside a Vector6d.
OutsideVector6d(order, indices) ==
    {ix \in indices : IndexValue(order, ix) \notin Vector6dPositions}

\* Vector6d::Zero( 6 )
ZeroKeplerian == [ix \in KeplerianIndices |-> 0]

\* Vector6d::Zero( 7 )
ZeroUnifiedStateModel == [ix \in UnifiedStateModelIndices |-> 0]

\* 1.0e-15 is 4.5 times the resolution of a double at 1.0 (2^-52); on the
\* integer grid of this model |x| < 4.5 units is |x| < 5 units.
singularityTolerance == 5

(* ---------------------------------------------------------------------- *)
(* State                                                                   *)
(*                                                                         *)
(* Each component is exercised by a caller of its own, under a             *)
(* specification of its own; the state of the other callers stays unused.  *)
(* ---------------------------------------------------------------------- *)

\* State of the caller of the Unified State Model conversions.
VARIABLES
    usmPc,                               \* position of the caller
    keplerianElements,                   \* argument of the first conversion
    centralBodyGravitationalParameter,   \* argument of both conversions
    unifiedStateModelElements,           \* vector returned by the first one
    keplerianToUsmOutcome,               \* "none", "returned", "runtime_error"
    convertedKeplerianElements,          \* vector returned by the second one
    usmToKeplerianOutcome,               \* "none", "returned", "runtime_error"
    cerr,                                \* lines written to std::cerr
    outsideContainer                     \* accesses made outside a Vector6d

usmVars ==
    <<usmPc, keplerianElements, centralBodyGravitationalParameter,
      unifiedStateModelElements, keplerianToUsmOutcome,
      convertedKeplerianElements, usmToKeplerianOutcome, cerr,
      outsideContainer>>

\* State of the invocations of the root-finding engine.  The engine itself
\* has no variable: everything below belongs to one invocation, except the
\* number of calls made so far on the one solver object.
VARIABLES
    solverCalls,          \* calls made so far on the solver object
    invocationProblem,    \* arguments of each invocation
    invocationStatus,     \* "idle", "running", "returned", "failed"
    currentIterate,       \* x of each invocation
    iterationCount,       \* iterations made by each invocation
    invocationResult      \* what each invocation handed to its caller

rootVars ==
    <<solverCalls, invocationProblem, invocationStatus, currentIterate,
      iterationCount, invocationResult>>

\* State of the caller of the Cartesian conversions.
VARIABLES
    cartesianPc,                  \* position of the caller
    keplerianInput,               \* argument of Keplerian to Cartesian
    gravitationalParameter,       \* argument of both conversions
    cartesianElements,            \* argument of Cartesian to Keplerian
    computedKeplerianElements,    \* what Cartesian to Keplerian returned
    cartesianToKeplerianOutcome   \* "none", "returned", "InvalidGeometry"

cartesianVars ==
    <<cartesianPc, keplerianInput, gravitationalParameter, cartesianElements,
      computedKeplerianElements, cartesianToKeplerianOutcome>>

\* State of the caller of the anomaly conversions.
VARIABLES
    anomalyFunction,       \* the conversion called
    anomalyArgument,       \* its angle argument
    anomalyEccentricity,   \* its eccentricity argument
    anomalyOutcome,        \* "none", "returned", "InvalidInput"
    anomalyValue           \* the angle returned

anomalyVars ==
    <<anomalyFunction, anomalyArgument, anomalyEccentricity, anomalyOutcome,
      anomalyValue>>

\* State of a ThrustAcceleration object and of its caller.
VARIABLES
    currentTime_,                    \* member of the acceleration model
    currentAcceleration_,            \* member
    currentAccelerationDirection_,   \* member
    currentThrustMagnitude_,         \* member
    currentMassRate_,                \* member
    thrustUpdateFunction_,           \* "empty" or "set", fixed at construction
    timeResetFunction_,              \* "empty" or "set", fixed at construction
    thrustCalls,                     \* calls made so far on the object
    lastCall,                        \* the last call: what it was given, the
                                     \* functions it invoked and how it ended
    recomputed                       \* what the user functions returned to
                                     \* the last updateMembers that completed
                                     \* a recomputation

thrustVars ==
    <<currentTime_, currentAcceleration_, currentAccelerationDirection_,
      currentThrustMagnitude_, currentMassRate_, thrustUpdateFunction_,
      timeResetFunction_, thrustCalls, lastCall, recomputed>>

\* State of a caller that applies a conversion and then its inverse.
VARIABLES
    roundTripPc,      \* position of the caller
    roundTripInput,   \* the conversion and the arguments it is given
    forwardResult,    \* what the conversion handed back
    backResult        \* what the inverse made of that

roundTripVars == <<roundTripPc, roundTripInput, forwardResult, backResult>>

vars ==
    <<usmVars, rootVars, cartesianVars, anomalyVars, thrustVars,
      roundTripVars>>


NoCall == [operation |-> "none"]

NoRecomputation == [made |-> FALSE]

\* No ThrustAcceleration object has been constructed.
ThrustUnused ==
    /\ currentTime_ = 0
    /\ currentAcceleration_ = <<0, 0, 0>>
    /\ currentAccelerationDirection_ = <<0, 0, 0>>
    /\ currentThrustMagnitude_ = 0
    /\ currentMassRate_ = 0
    /\ thrustUpdateFunction_ = "empty"
    /\ timeResetFunction_ = "empty"
    /\ thrustCalls = 0
    /\ lastCall = NoCall
    /\ recomputed = NoRecomputation

\* No anomaly conversion has been called.
AnomalyUnused ==
    /\ anomalyFunction = "none"
    /\ anomalyArgument = 0
    /\ anomalyEccentricity = 0
    /\ anomalyOutcome = "none"
    /\ anomalyValue = 0

ZeroVector == <<0, 0, 0>>

ZeroCartesian == [position |-> ZeroVector, velocity |-> ZeroVector]

\* No call of the Cartesian conversions has been made.
CartesianUnused ==
    /\ cartesianPc = "unused"
    /\ keplerianInput = ZeroKeplerian
    /\ gravitationalParameter = 0
    /\ cartesianElements = ZeroCartesian
    /\ computedKeplerianElements = ZeroKeplerian
    /\ cartesianToKeplerianOutcome = "none"

\* The two invocations that may run at the same time.
Invocations == {"first", "second"}

NoProblem == [family |-> "none"]

NoResult == [outcome |-> "none"]

\* No call of either conversion has been made.
UsmUnused ==
    /\ usmPc = "unused"
    /\ keplerianElements = ZeroKeplerian
    /\ centralBodyGravitationalParameter = 0
    /\ unifiedStateModelElements = ZeroUnifiedStateModel
    /\ keplerianToUsmOutcome = "none"
    /\ convertedKeplerianElements = ZeroKeplerian
    /\ usmToKeplerianOutcome = "none"
    /\ cerr = <<>>
    /\ outsideContainer = {}

\* No invocation of the root-finding engine has been made.
RootUnused ==
    /\ solverCalls = 0
    /\ invocationProblem = [p \in Invocations |-> NoProblem]
    /\ invocationStatus = [p \in Invocations |-> "idle"]
    /\ currentIterate = [p \in Invocations |-> 0]
    /\ iterationCount = [p \in Invocations |-> 0]
    /\ invocationResult = [p \in Invocations |-> NoResult]

NoInput == [kind |-> "none"]

\* No round trip has been started.
RoundTripUnused ==
    /\ roundTripPc = "unused"
    /\ roundTripInput = NoInput
    /\ forwardResult = NoResult
    /\ backResult = NoResult

(* ---------------------------------------------------------------------- *)
(* unifiedStateModelElementConversions.cpp                                 *)
(* ---------------------------------------------------------------------- *)

\* The inclination check with pi itself rejected.
InclinationOutOfRangeExcludingPI(kep) ==
    kep[inclinationIndex] < 0 \/ kep[inclinationIndex] >= PI

\* The inclination check of convertKeplerianToUnifiedStateModelElements.
InclinationOutOfRange(kep) ==
    kep[inclinationIndex] < 0 \/ kep[inclinationIndex] > PI

\* The branch on a parabolic orbit, in both conversions.
IsParabolic(eccentricity) ==
    FLt(FAbs(FSub(eccentricity, One)), singularityTolerance)

\* The C hodograph element with the factor 1 - e^2 left out.
CHodographIgnoringEccentricity(kep, mu) ==
    IF IsParabolic(kep[eccentricityIndex])
    THEN FSqrt(FDiv(mu, kep[semiLatusRectumIndex]))
    ELSE FSqrt(FDiv(mu, kep[semiMajorAxisIndex]))

\* The C hodograph element computed from Keplerian elements.
CHodographFromKeplerian(kep, mu) ==
    IF IsParabolic(kep[eccentricityIndex])
    THEN FSqrt(FDiv(mu, kep[semiLatusRectumIndex]))
    ELSE FSqrt(FDiv(mu,
            FMul(kep[semiMajorAxisIndex],
                 FSub(One, FMul(kep[eccentricityIndex],
                                kep[eccentricityIndex])))))

\* The vector built by convertKeplerianToUnifiedStateModelElements once the
\* inclination check has passed.
KeplerianToUnifiedStateModelVector(kep, mu) ==
    LET C == CHodographFromKeplerian(kep, mu)
        RHodograph == FMul(kep[eccentricityIndex], C)
        node == kep[longitudeOfAscendingNodeIndex]
        argumentOfLongitude ==
            kep[argumentOfPeriapsisIndex] + kep[trueAnomalyIndex]
        halfInclination == HalfAngle(kep[inclinationIndex])
    IN  [ix \in UnifiedStateModelIndices |->
           CASE ix = CHodographIndex -> C
             [] ix = Rf1HodographIndex ->
                  FNeg(FMul(RHodograph,
                            sin(node + kep[argumentOfPeriapsisIndex])))
             [] ix = Rf2HodographIndex ->
                  FMul(RHodograph,
                       cos(node + kep[argumentOfPeriapsisIndex]))
             [] ix = epsilon1QuaternionIndex ->
                  FMul(sin(halfInclination),
                       cos(HalfAngle(node - argumentOfLongitude)))
             [] ix = epsilon2QuaternionIndex ->
                  FMul(sin(halfInclination),
                       sin(HalfAngle(node - argumentOfLongitude)))
             [] ix = epsilon3QuaternionIndex ->
                  FMul(cos(halfInclination),
                       sin(HalfAngle(node + argumentOfLongitude)))
             [] OTHER ->
                  FMul(cos(halfInclination),
                       cos(HalfAngle(node + argumentOfLongitude)))]

\* convertKeplerianToUnifiedStateModelElements: the exception or the vector.
convertKeplerianToUnifiedStateModelElements(kep, mu) ==
    IF InclinationOutOfRange(kep)
    THEN [outcome |-> "runtime_error", value |-> ZeroUnifiedStateModel]
    ELSE [outcome |-> "returned",
          value |-> KeplerianToUnifiedStateModelVector(kep, mu)]

\* The test that opens convertUnifiedStateModelToKeplerianElements: both
\* epsilon3 and eta within the tolerance of zero (pure-retrograde orbit).
IsPureRetrograde(usm) ==
    /\ FLt(FAbs(usm[epsilon3QuaternionIndex]), singularityTolerance)
    /\ FLt(FAbs(usm[etaQuaternionIndex]), singularityTolerance)

\* Either of epsilon1 and epsilon2 within the tolerance of zero.
IsPureProgradeEitherComponent(usm) ==
    \/ FLt(FAbs(usm[epsilon1QuaternionIndex]), singularityTolerance)
    \/ FLt(FAbs(usm[epsilon2QuaternionIndex]), singularityTolerance)

\* Both epsilon1 and epsilon2 within the tolerance of zero.
IsPurePrograde(usm) ==
    /\ FLt(FAbs(usm[epsilon1QuaternionIndex]), singularityTolerance)
    /\ FLt(FAbs(usm[epsilon2QuaternionIndex]), singularityTolerance)

\* epsilon3^2 + eta^2
LambdaDenominator(usm) ==
    FAdd(FMul(usm[epsilon3QuaternionIndex], usm[epsilon3QuaternionIndex]),
         FMul(usm[etaQuaternionIndex], usm[etaQuaternionIndex]))

cosineLambda(usm) ==
    FDiv(FSub(FMul(usm[etaQuaternionIndex], usm[etaQuaternionIndex]),
              FMul(usm[epsilon3QuaternionIndex],
                   usm[epsilon3QuaternionIndex])),
         LambdaDenominator(usm))

sineLambda(usm) ==
    FDiv(FMul(FMul(2 * One, usm[epsilon3QuaternionIndex]),
              usm[etaQuaternionIndex]),
         LambdaDenominator(usm))

\* ve1, from the vector and the two auxiliary parameters.
AuxiliaryVe1(usm, cosLambda, sinLambda) ==
    FAdd(FMul(usm[Rf1HodographIndex], cosLambda),
         FMul(usm[Rf2HodographIndex], sinLambda))

\* ve2, from the vector and the two auxiliary parameters.
AuxiliaryVe2(usm, cosLambda, sinLambda) ==
    FAdd(FSub(usm[CHodographIndex],
              FMul(usm[Rf1HodographIndex], sinLambda)),
         FMul(usm[Rf2HodographIndex], cosLambda))

RHodographElement(usm) ==
    FSqrt(FAdd(FMul(usm[Rf1HodographIndex], usm[Rf1HodographIndex]),
               FMul(usm[Rf2HodographIndex], usm[Rf2HodographIndex])))

\* The size element without the branch on a parabolic orbit.
SizeElementFromUsmSemiMajorAxisOnly(usm, mu, eccentricity, ve1, ve2) ==
    FDiv(mu,
         FSub(FMul(FMul(2 * One, usm[CHodographIndex]), ve2),
              FAdd(FMul(ve1, ve1), FMul(ve2, ve2))))

\* The value written to slot 0: the semi-latus rectum of a parabolic orbit,
\* the semi-major axis of any other.
SizeElementFromUsm(usm, mu, eccentricity, ve1, ve2) ==
    IF IsParabolic(eccentricity)
    THEN FDiv(mu, FMul(usm[CHodographIndex], usm[CHodographIndex]))
    ELSE FDiv(mu,
              FSub(FMul(FMul(2 * One, usm[CHodographIndex]), ve2),
                   FAdd(FMul(ve1, ve1), FMul(ve2, ve2))))

InclinationFromUsm(usm) ==
    acos(FSub(One,
              FMul(2 * One,
                   FAdd(FMul(usm[epsilon1QuaternionIndex],
                             usm[epsilon1QuaternionIndex]),
                        FMul(usm[epsilon2QuaternionIndex],
                             usm[epsilon2QuaternionIndex])))))

\* The condition of the loops "while ( angle < -singularityTolerance )".
BelowMinusTolerance(angle) ==
    FLt(Radians(angle), FNeg(singularityTolerance))

\* 2 pi added once at most.
EnsurePositiveOnce(angle) ==
    IF BelowMinusTolerance(angle) THEN FAdd(angle, TwoPI) ELSE angle

RECURSIVE EnsurePositive(_)
\* while ( angle < -singularityTolerance ) { angle = angle + 2.0 * PI; }
EnsurePositive(angle) ==
    IF BelowMinusTolerance(angle)
    THEN EnsurePositive(FAdd(angle, TwoPI))
    ELSE angle

RECURSIVE EnsurePositiveIterations(_)
\* The number of times the body of that loop runs.
EnsurePositiveIterations(angle) ==
    IF BelowMinusTolerance(angle)
    THEN 1 + EnsurePositiveIterations(FAdd(angle, TwoPI))
    ELSE 0

\* The denominator of the quotient that gives the longitude of the node.
NodeDenominator(usm) ==
    FSqrt(FMul(FAdd(FMul(usm[epsilon1QuaternionIndex],
                         usm[epsilon1QuaternionIndex]),
                    FMul(usm[epsilon2QuaternionIndex],
                         usm[epsilon2QuaternionIndex])),
               FAdd(FMul(usm[etaQuaternionIndex],
                         usm[etaQuaternionIndex]),
                    FMul(usm[epsilon3QuaternionIndex],
                         usm[epsilon3QuaternionIndex]))))

\* The argument of the arccosine that gives the longitude of the node.
NodeCosine(usm) ==
    FDiv(FSub(FMul(usm[epsilon1QuaternionIndex], usm[etaQuaternionIndex]),
              FMul(usm[epsilon2QuaternionIndex],
                   usm[epsilon3QuaternionIndex])),
         NodeDenominator(usm))

\* The longitude of the ascending node from its sine and its cosine, which
\* tells the two half-planes of the node apart.
RawLongitudeOfAscendingNodeBothSigns(usm) ==
    IF IsPurePrograde(usm) \/ IsPureRetrograde(usm)
    THEN 0
    ELSE atan2(FDiv(FAdd(FMul(usm[epsilon2QuaternionIndex],
                              usm[etaQuaternionIndex]),
                         FMul(usm[epsilon1QuaternionIndex],
                              usm[epsilon3QuaternionIndex])),
                    NodeDenominator(usm)),
               NodeCosine(usm))

\* The longitude of the ascending node before its loop.
RawLongitudeOfAscendingNode(usm) ==
    IF IsPurePrograde(usm) \/ IsPureRetrograde(usm)
    THEN 0
    ELSE acos(NodeCosine(usm))

\* The branch on a circular orbit.
IsCircular(RHodograph) == FLt(FAbs(RHodograph), singularityTolerance)

\* The true anomaly before its loop.
RawTrueAnomaly(usm, RHodograph, lambda, node, ve2) ==
    IF IsCircular(RHodograph)
    THEN FSub(lambda, node)
    ELSE acos(FDiv(FSub(ve2, usm[CHodographIndex]), RHodograph))

\* The argument of periapsis with the longitude of the node left out.
RawArgumentOfPeriapsisWithoutNode(lambda, node, trueAnomaly) ==
    FSub(lambda, trueAnomaly)

\* The argument of periapsis of a non-circular orbit before its loop.
RawArgumentOfPeriapsis(lambda, node, trueAnomaly) ==
    FSub(FSub(lambda, node), trueAnomaly)

\* Everything convertUnifiedStateModelToKeplerianElements computes after
\* the pure-retrograde test has failed: its local variables, the values
\* each angle has before its loop, and the vector it returns.
UnifiedStateModelToKeplerianSteps(usm, mu) ==
    LET cosLambda == cosineLambda(usm)
        sinLambda == sineLambda(usm)
        lambda == atan2(sinLambda, cosLambda)
        ve1 == AuxiliaryVe1(usm, cosLambda, sinLambda)
        ve2 == AuxiliaryVe2(usm, cosLambda, sinLambda)
        RHodograph == RHodographElement(usm)
        eccentricity == FDiv(RHodograph, usm[CHodographIndex])
        rawNode == RawLongitudeOfAscendingNode(usm)
        node == IF IsPurePrograde(usm) \/ IsPureRetrograde(usm)
                THEN rawNode ELSE EnsurePositive(rawNode)
        rawAnomaly == RawTrueAnomaly(usm, RHodograph, lambda, node, ve2)
        anomaly == EnsurePositive(rawAnomaly)
        rawPeriapsis == IF IsCircular(RHodograph) THEN 0
                        ELSE RawArgumentOfPeriapsis(lambda, node, anomaly)
        periapsis == IF IsCircular(RHodograph) THEN rawPeriapsis
                     ELSE EnsurePositive(rawPeriapsis)
    IN  [cosineLambda |-> cosLambda,
         sineLambda |-> sinLambda,
         lambdaFromSineAndCosine |-> lambda,
         ve1 |-> ve1,
         ve2 |-> ve2,
         RHodographElement |-> RHodograph,
         rawLongitudeOfAscendingNode |-> rawNode,
         rawTrueAnomaly |-> rawAnomaly,
         rawArgumentOfPeriapsis |-> rawPeriapsis,
         value |->
           [ix \in KeplerianIndices |->
              CASE ix = semiMajorAxisIndex ->
                     SizeElementFromUsm(usm, mu, eccentricity, ve1, ve2)
                [] ix = eccentricityIndex -> eccentricity
                [] ix = inclinationIndex -> InclinationFromUsm(usm)
                [] ix = longitudeOfAscendingNodeIndex -> node
                [] ix = trueAnomalyIndex -> anomaly
                [] OTHER -> periapsis]]

PureRetrogradeMessage ==
    "Pure-retrograde orbit (i=pi). The auxiliary parameters cosineLambda, sineLambda and Lambda cannot be calculated."

\* convertUnifiedStateModelToKeplerianElements: how the call ends, the
\* vector it returns and what it writes to std::cerr.
convertUnifiedStateModelToKeplerianElements(usm, mu) ==
    IF IsPureRetrograde(usm)
    THEN [outcome |-> "returned", value |-> ZeroKeplerian,
          cerr |-> <<PureRetrogradeMessage>>]
    ELSE [outcome |-> "returned",
          value |-> UnifiedStateModelToKeplerianSteps(usm, mu).value,
          cerr |-> <<>>]

\* The components convertKeplerianToUnifiedStateModelElements writes into
\* its result once the inclination check has passed.
ComponentsWritten == UnifiedStateModelIndices

\* The components convertUnifiedStateModelToKeplerianElements reads from its
\* argument: epsilon3 and eta when the opening test returns, all seven
\* otherwise.
ComponentsRead(usm) ==
    IF IsPureRetrograde(usm)
    THEN {epsilon3QuaternionIndex, etaQuaternionIndex}
    ELSE UnifiedStateModelIndices

\* The accesses to components of a Unified State Model vector that fall
\* outside the Vector6d holding it.
OutsideAccesses(function, access, indices) ==
    {[function |-> function, access |-> access,
      position |-> IndexValue(UnifiedStateModelOrder, ix)] :
        ix \in OutsideVector6d(UnifiedStateModelOrder, indices)}

\* A component outside the Vector6d is memory past the end of the vector:
\* after the call it holds the value written there, when the result was
\* built in the caller's storage and nothing reused the memory, or whatever
\* else the memory holds (here zero or one).
AdjacentMemory(written) == {written, 0, One}

\* The vectors the caller can find after the call returned value.
VectorsAfterReturn(value) ==
    {[ix \in UnifiedStateModelIndices |->
        IF ix \in OutsideVector6d(UnifiedStateModelOrder, {ix})
        THEN held ELSE value[ix]] :
        held \in AdjacentMemory(value[etaQuaternionIndex])}

(* ---------------------------------------------------------------------- *)
(* A caller converting Keplerian elements to the Unified State Model and   *)
(* back                                                                    *)
(* ---------------------------------------------------------------------- *)

\* Inclinations offered to the first conversion: every multiple of 45
\* degrees from -45 to 225 degrees.
InclinationInputs == {2 * k : k \in -1..(HalfPI + 1)}

\* Node, periapsis and anomaly inputs: every multiple of 45 degrees of
\* [0, 2 pi).
AngleInputs == {2 * k : k \in 0..(PI - 1)}

\* Eccentricities: negative, circular, elliptical, parabolic, hyperbolic.
EccentricityInputs == {-(One \div 2), 0, One \div 2, One, 2 * One}

GravitationalParameterInputs == {One}

\* The size element that goes with an eccentricity: the semi-latus rectum
\* of a parabolic orbit, a negative semi-major axis for a hyperbolic orbit,
\* a positive one otherwise.
SizeElementInput(eccentricity) ==
    IF eccentricity > One THEN -(2 * One) ELSE 2 * One

KeplerianInputs ==
    {[ix \in KeplerianIndices |->
        CASE ix = semiMajorAxisIndex -> SizeElementInput(e)
          [] ix = eccentricityIndex -> e
          [] ix = inclinationIndex -> i
          [] ix = longitudeOfAscendingNodeIndex -> node
          [] ix = argumentOfPeriapsisIndex -> w
          [] OTHER -> nu] :
        e \in EccentricityInputs, i \in InclinationInputs,
        node \in AngleInputs, w \in AngleInputs, nu \in AngleInputs}

UsmInit ==
    /\ usmPc = "start"
    /\ keplerianElements \in KeplerianInputs
    /\ centralBodyGravitationalParameter \in GravitationalParameterInputs
    /\ unifiedStateModelElements = ZeroUnifiedStateModel
    /\ keplerianToUsmOutcome = "none"
    /\ convertedKeplerianElements = ZeroKeplerian
    /\ usmToKeplerianOutcome = "none"
    /\ cerr = <<>>
    /\ outsideContainer = {}
    /\ RootUnused
    /\ CartesianUnused
    /\ AnomalyUnused
    /\ ThrustUnused
    /\ RoundTripUnused

\* The caller converts its Keplerian elements.
CallKeplerianToUsm ==
    /\ usmPc = "start"
    /\ \E r \in {convertKeplerianToUnifiedStateModelElements(
                    keplerianElements, centralBodyGravitationalParameter)} :
           /\ keplerianToUsmOutcome' = r.outcome
           /\ unifiedStateModelElements' \in
                  (IF r.outcome = "returned" THEN VectorsAfterReturn(r.value)
                   ELSE {unifiedStateModelElements})
           /\ outsideContainer' = outsideContainer \cup
                  (IF r.outcome = "returned"
                   THEN OutsideAccesses(
                            "convertKeplerianToUnifiedStateModelElements",
                            "write", ComponentsWritten)
                   ELSE {})
           /\ usmPc' = (IF r.outcome = "returned" THEN "converted"
                        ELSE "failed")
    /\ UNCHANGED <<keplerianElements, centralBodyGravitationalParameter,
                   convertedKeplerianElements, usmToKeplerianOutcome, cerr>>
    /\ UNCHANGED <<rootVars, cartesianVars, anomalyVars, thrustVars,
                   roundTripVars>>

\* The caller converts the vector it got back to Keplerian elements.
CallUsmToKeplerian ==
    /\ usmPc = "converted"
    /\ \E r \in {convertUnifiedStateModelToKeplerianElements(
                    unifiedStateModelElements,
                    centralBodyGravitationalParameter)} :
           /\ usmToKeplerianOutcome' = r.outcome
           /\ convertedKeplerianElements' =
                  (IF r.outcome = "returned" THEN r.value
                   ELSE convertedKeplerianElements)
           /\ cerr' = cerr \o r.cerr
           /\ outsideContainer' = outsideContainer \cup
                  OutsideAccesses(
                      "convertUnifiedStateModelToKeplerianElements",
                      "read", ComponentsRead(unifiedStateModelElements))
           /\ usmPc' = (IF r.outcome = "returned" THEN "done" ELSE "failed")
    /\ UNCHANGED <<keplerianElements, centralBodyGravitationalParameter,
                   unifiedStateModelElements, keplerianToUsmOutcome>>
    /\ UNCHANGED <<rootVars, cartesianVars, anomalyVars, thrustVars,
                   roundTripVars>>

UsmNext == CallKeplerianToUsm \/ CallUsmToKeplerian

SpecUsm == UsmInit /\ [][UsmNext]_vars

(* ---------------------------------------------------------------------- *)
(* Functions of a double angle in radians                                  *)
(*                                                                         *)
(* Anomalies are doubles in radians, not steps of the angle grid.  The     *)
(* functions below take and return doubles in units of 1/Scale; each       *)
(* rounds as the arithmetic above does.                                    *)
(* ---------------------------------------------------------------------- *)

\* pi and 2 pi as doubles.
PiRadians == RDiv(355 * Scale, 113)

TwoPiRadians == RDiv(710 * Scale, 113)

HalfPiRadians == RDiv(355 * Scale, 226)

\* An angle brought into [0, 2 pi).
WrapRadians(x) == IF IsFinite(x) THEN x % TwoPiRadians ELSE NaN

\* An angle brought into (-pi, pi].
WrapSigned(x) ==
    LET r == x % TwoPiRadians
    IN  IF r > PiRadians THEN r - TwoPiRadians ELSE r

\* The power series term after term: term * x^2 / (k (k + 1)), with the sign
\* given, summed until the terms vanish.
RECURSIVE PowerSeries(_, _, _, _, _)
PowerSeries(xSquared, term, k, sign, sum) ==
    LET next == RDiv(sign * term * xSquared, Scale * k * (k + 1))
    IN  IF next = 0
        THEN sum
        ELSE PowerSeries(xSquared, next, k + 2, sign, sum + next)

\* std::sin of a double.
sinRadians(x) ==
    IF ~IsFinite(x) THEN NaN
    ELSE LET r == WrapSigned(x)
             folded == IF r > HalfPiRadians THEN PiRadians - r
                       ELSE IF r < -HalfPiRadians THEN (-PiRadians) - r
                       ELSE r
         IN  PowerSeries(FMul(folded, folded), folded, 2, -1, folded)

\* std::cos of a double.
cosRadians(x) ==
    IF ~IsFinite(x) THEN NaN
    ELSE LET r == Abs(WrapSigned(x))
             folded == IF r > HalfPiRadians THEN PiRadians - r ELSE r
             value == PowerSeries(FMul(folded, folded), One, 1, -1, One)
         IN  IF r > HalfPiRadians THEN -value ELSE value

\* The largest magnitude whose hyperbolic functions are representable.
HyperbolicLimit == 5 * One

\* std::sinh of a double.
sinh(x) ==
    IF IsNaN(x) THEN NaN
    ELSE IF IsInf(x) \/ Abs(x) > HyperbolicLimit THEN Sign(x) * Inf
    ELSE PowerSeries(FMul(x, x), x, 2, 1, x)

\* std::cosh of a double.
cosh(x) ==
    IF IsNaN(x) THEN NaN
    ELSE IF IsInf(x) \/ Abs(x) > HyperbolicLimit THEN Inf
    ELSE PowerSeries(FMul(x, x), One, 1, 1, One)

(* ---------------------------------------------------------------------- *)
(* Properties of the two Unified State Model conversions                   *)
(* ---------------------------------------------------------------------- *)

\* The second conversion has been called and has ended.
UsmToKeplerianEnded == usmToKeplerianOutcome # "none"

\* The first conversion has been called and has ended.
KeplerianToUsmEnded == keplerianToUsmOutcome # "none"

\* C1: whenever the vector given to convertUnifiedStateModelToKeplerianElements
\* has both |epsilon3| and |eta| below the singularity tolerance, the call
\* ends in a failure reported to its caller and returns no element vector.
C1_PureRetrogradeFails ==
    (UsmToKeplerianEnded /\ IsPureRetrograde(unifiedStateModelElements))
        => usmToKeplerianOutcome # "returned"

\* A double angle lies in [0, 2 pi).
InCanonicalRange(angle) == ~FLt(angle, 0) /\ FLt(angle, TwoPI)

\* Two doubles differ by at most 2 percent of one.
Close(x, y) == IsFinite(x) /\ IsFinite(y) /\ Abs(x - y) <= Scale \div 50

\* Keplerian elements that a round trip has to reproduce: a non-negative
\* eccentricity, an inclination in [0, pi), the node at 0 when the orbit is
\* equatorial and the periapsis at 0 when it is circular.
RoundTripInput(kep) ==
    /\ kep[eccentricityIndex] >= 0
    /\ kep[inclinationIndex] >= 0
    /\ kep[inclinationIndex] < PI
    /\ kep[inclinationIndex] = 0 => kep[longitudeOfAscendingNodeIndex] = 0
    /\ kep[eccentricityIndex] = 0 => kep[argumentOfPeriapsisIndex] = 0

\* Every field of out reproduces the field of kep.
Reproduces(out, kep) ==
    /\ Close(out[semiMajorAxisIndex], kep[semiMajorAxisIndex])
    /\ Close(out[eccentricityIndex], kep[eccentricityIndex])
    /\ \A ix \in {inclinationIndex, longitudeOfAscendingNodeIndex,
                  argumentOfPeriapsisIndex, trueAnomalyIndex} :
           out[ix] = kep[ix]

\* C2: for every Keplerian element set that is not pure-retrograde, node,
\* periapsis and anomaly anywhere in [0, 2 pi), converting to the Unified
\* State Model and back reproduces every field.  Stated for the round trips
\* that return numbers (a NaN reproduces nothing either).
C2_UsmRoundTripReproduces ==
    (/\ UsmToKeplerianEnded
     /\ RoundTripInput(keplerianElements)
     /\ \A ix \in KeplerianIndices :
            IsFinite(convertedKeplerianElements[ix]))
        => Reproduces(convertedKeplerianElements, keplerianElements)

\* C3: whenever convertUnifiedStateModelToKeplerianElements returns, the
\* node, the argument of periapsis and the true anomaly lie in [0, 2 pi).
\* Stated for the vectors made from elements a round trip has to reproduce.
C3_ReturnedAnglesInCanonicalRange ==
    (usmToKeplerianOutcome = "returned" /\ RoundTripInput(keplerianElements))
        => \A ix \in {longitudeOfAscendingNodeIndex,
                      argumentOfPeriapsisIndex, trueAnomalyIndex} :
               InCanonicalRange(convertedKeplerianElements[ix])

\* C4: convertKeplerianToUnifiedStateModelElements throws, and hands no
\* vector to its caller, exactly when the inclination is below 0 or above
\* pi; an inclination of 0 or of pi is accepted.
C4_InclinationCheck ==
    KeplerianToUsmEnded =>
        /\ (keplerianToUsmOutcome = "runtime_error")
              <=> (\/ keplerianElements[inclinationIndex] < 0
                   \/ keplerianElements[inclinationIndex] > PI)
        /\ keplerianToUsmOutcome = "runtime_error"
              => /\ unifiedStateModelElements = ZeroUnifiedStateModel
                 /\ usmPc = "failed"
        /\ keplerianElements[inclinationIndex] \in {0, PI}
              => keplerianToUsmOutcome = "returned"

\* The call threw on an inclination above pi.
C4_ThrownAbovePI ==
    /\ keplerianToUsmOutcome = "runtime_error"
    /\ keplerianElements[inclinationIndex] > PI
    /\ usmPc = "failed"

\* C5: convertKeplerianToUnifiedStateModelElements throws whenever the
\* eccentricity is negative.
C5_NegativeEccentricityFails ==
    (KeplerianToUsmEnded /\ keplerianElements[eccentricityIndex] < 0)
        => keplerianToUsmOutcome = "runtime_error"

\* C11: on every path, the failure paths included, the two conversions
\* perform no input or output: nothing is ever written to std::cerr.
C11_ConversionsPerformNoIO == cerr = <<>>

\* epsilon1^2 + epsilon2^2 + epsilon3^2 + eta^2
QuaternionNormSquared(usm) ==
    FAdd(FAdd(FMul(usm[epsilon1QuaternionIndex],
                   usm[epsilon1QuaternionIndex]),
              FMul(usm[epsilon2QuaternionIndex],
                   usm[epsilon2QuaternionIndex])),
         FAdd(FMul(usm[epsilon3QuaternionIndex],
                   usm[epsilon3QuaternionIndex]),
              FMul(usm[etaQuaternionIndex], usm[etaQuaternionIndex])))

C13_SevenComponentsInsideContainer == outsideContainer = {}
\* The second conversion returned from beyond its opening test.
UsmToKeplerianComputed ==
    /\ usmToKeplerianOutcome = "returned"
    /\ ~IsPureRetrograde(unifiedStateModelElements)

\* C18: convertUnifiedStateModelToKeplerianElements fills the one size slot
\* once: with the semi-latus rectum mu / C^2 when |e - 1| is below the
\* singularity tolerance (e = R / C), otherwise with the semi-major axis
\* mu / (2 C ve2 - (ve1^2 + ve2^2)), which is positive for e < 1 and
\* negative for e > 1.
C18_OneSizeElement ==
    UsmToKeplerianComputed
        => LET usm == unifiedStateModelElements
               mu == centralBodyGravitationalParameter
               C == usm[CHodographIndex]
               steps == UnifiedStateModelToKeplerianSteps(usm, mu)
               e == FDiv(steps.RHodographElement, C)
               size == convertedKeplerianElements[semiMajorAxisIndex]
           IN  /\ semiLatusRectumIndex = semiMajorAxisIndex
               /\ convertedKeplerianElements[eccentricityIndex] = e
               /\ IF Abs(e - One) < singularityTolerance
                  THEN size = FDiv(mu, FMul(C, C))
                  ELSE /\ size =
                            FDiv(mu,
                                 FSub(FMul(FMul(2 * One, C), steps.ve2),
                                      FAdd(FMul(steps.ve1, steps.ve1),
                                           FMul(steps.ve2, steps.ve2))))
                       /\ e < One => (size > 0 /\ IsFinite(size))
                       /\ e > One => (size < 0 /\ IsFinite(size))

\* A parabolic orbit came back with its semi-latus rectum.
C18_ParabolicSemiLatusRectum ==
    /\ UsmToKeplerianComputed
    /\ keplerianElements[eccentricityIndex] = One
    /\ convertedKeplerianElements[eccentricityIndex] = One
    /\ Close(convertedKeplerianElements[semiLatusRectumIndex],
             keplerianElements[semiLatusRectumIndex])

\* raw increased by 2 pi until it is not negative.
IncreasedUntilNonNegative(raw) ==
    IF IsNaN(raw) THEN NaN
    ELSE IF raw >= 0 THEN raw
    ELSE raw + TwoPI * ((TwoPI - 1 - raw) \div TwoPI)

C20_LongitudeOfAscendingNode ==
    usmToKeplerianOutcome = "returned"
        => LET usm == unifiedStateModelElements
               node ==
                   convertedKeplerianElements[longitudeOfAscendingNodeIndex]
               degenerate ==
                   \/ /\ Abs(usm[epsilon1QuaternionIndex])
                            < singularityTolerance
                      /\ Abs(usm[epsilon2QuaternionIndex])
                            < singularityTolerance
                   \/ /\ Abs(usm[epsilon3QuaternionIndex])
                            < singularityTolerance
                      /\ Abs(usm[etaQuaternionIndex])
                            < singularityTolerance
           IN  IF degenerate
               THEN node = 0
               ELSE /\ IsFinite(NodeDenominator(usm))
                    /\ NodeDenominator(usm) # 0
                    /\ node = acos(NodeCosine(usm))

\* An inclined orbit came back with the node it was given.
C20_NodeRecovered ==
    /\ UsmToKeplerianComputed
    /\ ~IsPurePrograde(unifiedStateModelElements)
    /\ keplerianElements[longitudeOfAscendingNodeIndex] = HalfPI
    /\ convertedKeplerianElements[longitudeOfAscendingNodeIndex] = HalfPI

\* C28: every loop of convertUnifiedStateModelToKeplerianElements ends,
\* also on an angle that is NaN: the body of the loop of the node runs 0
\* times, that of the true anomaly at most once, that of the argument of
\* periapsis at most twice, and the angle each loop leaves is not less than
\* minus the singularity tolerance.
C28_LoopsEndWithinBounds ==
    UsmToKeplerianComputed
        => LET steps == UnifiedStateModelToKeplerianSteps(
                            unifiedStateModelElements,
                            centralBodyGravitationalParameter)
           IN  /\ EnsurePositiveIterations(steps.rawLongitudeOfAscendingNode)
                      = 0
               /\ EnsurePositiveIterations(steps.rawTrueAnomaly) <= 1
               /\ EnsurePositiveIterations(steps.rawArgumentOfPeriapsis) <= 2
               /\ \A ix \in {longitudeOfAscendingNodeIndex,
                             trueAnomalyIndex, argumentOfPeriapsisIndex} :
                      ~FLt(Radians(convertedKeplerianElements[ix]),
                           FNeg(singularityTolerance))

\* The loop of the argument of periapsis ran twice on a non-negative
\* eccentricity and left an angle that is not negative.
C28_PeriapsisLoopRanTwice ==
    /\ UsmToKeplerianComputed
    /\ keplerianElements[eccentricityIndex] > 0
    /\ EnsurePositiveIterations(
           UnifiedStateModelToKeplerianSteps(
               unifiedStateModelElements,
               centralBodyGravitationalParameter).rawArgumentOfPeriapsis) = 2
    /\ convertedKeplerianElements[argumentOfPeriapsisIndex] >= 0

\* An angle of [0, 2 pi) folded onto [0, pi]: the angle with the same cosine.
FoldedOntoUpperHalf(angle) == IF angle <= PI THEN angle ELSE TwoPI - angle

\* The value is an angle of [0, pi].
InUpperHalf(angle) == ~IsNaN(angle) /\ angle >= 0 /\ angle <= PI

\* The Unified State Model vector is the one the forward conversion wrote,
\* seventh element included.
EtaAsConverted ==
    unifiedStateModelElements[etaQuaternionIndex]
        = KeplerianToUnifiedStateModelVector(
              keplerianElements,
              centralBodyGravitationalParameter)[etaQuaternionIndex]

\* The node branch of the conversion is the non-degenerate one.
NodeFromArccosine ==
    /\ ~IsPurePrograde(unifiedStateModelElements)
    /\ ~IsPureRetrograde(unifiedStateModelElements)

\* The true-anomaly branch of the conversion is the non-circular one.
TrueAnomalyFromArccosine ==
    ~IsCircular(RHodographElement(unifiedStateModelElements))

MaxIterationCap == 6

\* Largest number of calls made on the one solver object.
MaxSolverCalls == 3

\* Test 7: eccentricity 0.01671, mean anomaly 60 degrees.
TestSevenEccentricity == RDiv(1671 * Scale, 100000)

TestSevenMeanAnomaly == RDiv(60 * PiRadians, 180)

\* Test 9: eccentricity 2.4, mean anomaly 235.4 degrees.
TestNineEccentricity == RDiv(24 * Scale, 10)

TestNineMeanAnomaly == RDiv(2354 * PiRadians, 1800)

\* What the mean-to-eccentric inversion gives the engine: Kepler's equation
\* and the guess E0 = M.
MeanToEccentricProblem(eccentricity, meanAnomaly, tolerance, cap) ==
    [family |-> "elliptic", eccentricity |-> eccentricity,
     meanAnomaly |-> meanAnomaly, initialGuess |-> meanAnomaly,
     tolerance |-> tolerance, maximumNumberOfIterations |-> cap]

\* What the mean-to-hyperbolic-eccentric inversion gives the engine: the
\* hyperbolic analogue and the guess H0 = M.
MeanToHyperbolicEccentricProblem(eccentricity, meanAnomaly, tolerance, cap) ==
    [family |-> "hyperbolic", eccentricity |-> eccentricity,
     meanAnomaly |-> meanAnomaly, initialGuess |-> meanAnomaly,
     tolerance |-> tolerance, maximumNumberOfIterations |-> cap]

ToleranceInputs == {2, 20}

CapInputs == {0, 2, MaxIterationCap}

\* The inversions the callers ask for: those of Test 7 and Test 9, a more
\* eccentric ellipse and a less eccentric hyperbola.
ProblemInputs ==
    {MeanToEccentricProblem(em[1], em[2], tolerance, cap) :
        em \in {<<TestSevenEccentricity, TestSevenMeanAnomaly>>,
                <<One \div 2, 3 * One>>},
        tolerance \in ToleranceInputs, cap \in CapInputs}
    \cup
    {MeanToHyperbolicEccentricProblem(em[1], em[2], tolerance, cap) :
        em \in {<<TestNineEccentricity, TestNineMeanAnomaly>>,
                <<(3 * One) \div 2, One \div 2>>},
        tolerance \in ToleranceInputs, cap \in CapInputs}

\* f(x): E - e sin E - M, or e sinh H - H - M.
Residual(problem, x) ==
    IF problem.family = "elliptic"
    THEN FSub(FSub(x, FMul(problem.eccentricity, sinRadians(x))),
              problem.meanAnomaly)
    ELSE FSub(FSub(FMul(problem.eccentricity, sinh(x)), x),
              problem.meanAnomaly)

\* f'(x): 1 - e cos E, or e cosh H - 1.
Derivative(problem, x) ==
    IF problem.family = "elliptic"
    THEN FSub(One, FMul(problem.eccentricity, cosRadians(x)))
    ELSE FSub(FMul(problem.eccentricity, cosh(x)), One)

\* |f(x)| < epsilon.
IsConverged(problem, x) == FLt(FAbs(Residual(problem, x)), problem.tolerance)

\* The iteration budget with one iteration too many.
BudgetExceededLate(problem, iterations) ==
    iterations > problem.maximumNumberOfIterations

\* The iteration budget is used up.
BudgetExceeded(problem, iterations) ==
    iterations >= problem.maximumNumberOfIterations

\* x - f(x) / f'(x).
NewtonStep(problem, x) ==
    FSub(x, FDiv(Residual(problem, x), Derivative(problem, x)))

\* One iterate kept in the solver object, whichever invocation runs.
IterateOfSolver(invocation) == "first"

\* Every invocation works on an iterate of its own.
IterateOf(invocation) == invocation

ConvergedResult(x) == [outcome |-> "converged", value |-> x]

\* The Non-Convergence error, with the last iterate and its residual.
NonConvergence(problem, x) ==
    [outcome |-> "NonConvergence", lastIterate |-> x,
     residual |-> Residual(problem, x)]

\* A caller invokes the engine; an invocation that has ended may be
\* followed by another one on the same solver object.
Invoke(p) ==
    /\ invocationStatus[p] # "running"
    /\ solverCalls < MaxSolverCalls
    /\ \E problem \in ProblemInputs :
           /\ invocationProblem' = [invocationProblem EXCEPT ![p] = problem]
           /\ currentIterate' =
                  [currentIterate EXCEPT ![IterateOf(p)] = problem.initialGuess]
    /\ iterationCount' = [iterationCount EXCEPT ![p] = 0]
    /\ invocationStatus' = [invocationStatus EXCEPT ![p] = "running"]
    /\ invocationResult' = [invocationResult EXCEPT ![p] = NoResult]
    /\ solverCalls' = solverCalls + 1
    /\ UNCHANGED <<usmVars, cartesianVars, anomalyVars, thrustVars,
                   roundTripVars>>

\* The residual is below the tolerance: the invocation returns its iterate.
ReturnConverged(p) ==
    /\ invocationStatus[p] = "running"
    /\ IsConverged(invocationProblem[p], currentIterate[IterateOf(p)])
    /\ invocationStatus' = [invocationStatus EXCEPT ![p] = "returned"]
    /\ invocationResult' =
           [invocationResult EXCEPT
               ![p] = ConvergedResult(currentIterate[IterateOf(p)])]
    /\ UNCHANGED <<solverCalls, invocationProblem, currentIterate,
                   iterationCount>>
    /\ UNCHANGED <<usmVars, cartesianVars, anomalyVars, thrustVars,
                   roundTripVars>>

\* Not converged and the budget is used up: the invocation fails.
FailNonConvergence(p) ==
    /\ invocationStatus[p] = "running"
    /\ ~IsConverged(invocationProblem[p], currentIterate[IterateOf(p)])
    /\ BudgetExceeded(invocationProblem[p], iterationCount[p])
    /\ invocationStatus' = [invocationStatus EXCEPT ![p] = "failed"]
    /\ invocationResult' =
           [invocationResult EXCEPT
               ![p] = NonConvergence(invocationProblem[p],
                                     currentIterate[IterateOf(p)])]
    /\ UNCHANGED <<solverCalls, invocationProblem, currentIterate,
                   iterationCount>>
    /\ UNCHANGED <<usmVars, cartesianVars, anomalyVars, thrustVars,
                   roundTripVars>>

\* Not converged and budget left: one Newton step.
Iterate(p) ==
    /\ invocationStatus[p] = "running"
    /\ ~IsConverged(invocationProblem[p], currentIterate[IterateOf(p)])
    /\ ~BudgetExceeded(invocationProblem[p], iterationCount[p])
    /\ currentIterate' =
           [currentIterate EXCEPT
               ![IterateOf(p)] = NewtonStep(invocationProblem[p],
                                            currentIterate[IterateOf(p)])]
    /\ iterationCount' = [iterationCount EXCEPT ![p] = @ + 1]
    /\ UNCHANGED <<solverCalls, invocationProblem, invocationStatus,
                   invocationResult>>
    /\ UNCHANGED <<usmVars, cartesianVars, anomalyVars, thrustVars,
                   roundTripVars>>

RootInit ==
    /\ RootUnused
    /\ UsmUnused
    /\ CartesianUnused
    /\ AnomalyUnused
    /\ ThrustUnused
    /\ RoundTripUnused

RootNext ==
    \E p \in Invocations :
        \/ Invoke(p)
        \/ ReturnConverged(p)
        \/ FailNonConvergence(p)
        \/ Iterate(p)

SpecRoot == RootInit /\ [][RootNext]_vars


\* The engine run from start to end by a caller that does nothing else,
\* on a solver object that has not been used before.
RECURSIVE NewtonRaphson(_, _, _)
NewtonRaphson(problem, x, iterations) ==
    IF IsConverged(problem, x) THEN ConvergedResult(x)
    ELSE IF BudgetExceeded(problem, iterations) THEN NonConvergence(problem, x)
    ELSE CHOOSE result \in {NewtonRaphson(problem, next, iterations + 1) :
                                next \in {NewtonStep(problem, x)}} : TRUE

\* The iterate reached from the initial guess by the given number of steps.
RECURSIVE IterateAfter(_, _)
IterateAfter(problem, iterations) ==
    IF iterations = 0
    THEN problem.initialGuess
    ELSE CHOOSE next \in {NewtonStep(problem, x) :
                              x \in {IterateAfter(problem, iterations - 1)}} :
             TRUE

(* ---------------------------------------------------------------------- *)
(* Properties of the root-finding engine                                   *)
(* ---------------------------------------------------------------------- *)

HasEnded(p) == invocationStatus[p] \in {"returned", "failed"}

\* C6: an invocation with tolerance eps and cap N makes at most N iterations,
\* each one a Newton step from the iterate before it, the first from the
\* guess it was given; while it runs it has handed nothing to its caller;
\* it ends either returning an x with |f(x)| < eps or failing with Non-Convergence
\* carrying the last iterate and its residual, after exactly N iterations
\* and with a residual that is not below eps.
C6_BoundedIterationsTwoOutcomes ==
    \A p \in Invocations :
        invocationStatus[p] # "idle" =>
            LET problem == invocationProblem[p]
                x == currentIterate[p]
            IN  /\ iterationCount[p] <= problem.maximumNumberOfIterations
                /\ x = IterateAfter(problem, iterationCount[p])
                /\ invocationStatus[p] = "running" =>
                       invocationResult[p] = NoResult
                /\ invocationStatus[p] = "returned" =>
                       /\ invocationResult[p] = ConvergedResult(x)
                       /\ FLt(FAbs(Residual(problem, x)), problem.tolerance)
                /\ invocationStatus[p] = "failed" =>
                       /\ invocationResult[p].outcome = "NonConvergence"
                       /\ invocationResult[p].lastIterate = x
                       /\ invocationResult[p].residual = Residual(problem, x)
                       /\ ~FLt(FAbs(Residual(problem, x)), problem.tolerance)
                       /\ iterationCount[p] =
                              problem.maximumNumberOfIterations

\* One invocation has returned after iterating and the other has failed
\* after using up a budget of at least one iteration.
C6_ReturnedAndFailed ==
    \E p, q \in Invocations :
        /\ invocationStatus[p] = "returned"
        /\ iterationCount[p] > 0
        /\ invocationStatus[q] = "failed"
        /\ iterationCount[q] > 0
        /\ iterationCount[q] = invocationProblem[q].maximumNumberOfIterations

Cross(a, b) ==
    <<FSub(FMul(a[2], b[3]), FMul(a[3], b[2])),
      FSub(FMul(a[3], b[1]), FMul(a[1], b[3])),
      FSub(FMul(a[1], b[2]), FMul(a[2], b[1]))>>

Dot(a, b) == FAdd(FAdd(FMul(a[1], b[1]), FMul(a[2], b[2])), FMul(a[3], b[3]))

\* The norm, rounded once.
Norm(a) == ISqrt(a[1] * a[1] + a[2] * a[2] + a[3] * a[3])

\* A grid angle brought into [0, 2 pi).
WrapAngle(angle) == IF IsNaN(angle) THEN NaN ELSE angle % TwoPI

\* The angle between two vectors, in [0, pi]; a cosine that rounding has
\* pushed past 1 or -1 counts as 1 or -1.
AngleBetween(a, b) ==
    LET cosine == FDiv(Dot(a, b), FMul(Norm(a), Norm(b)))
    IN  IF IsNaN(cosine) THEN NaN
        ELSE IF cosine >= One THEN 0
        ELSE IF cosine <= -One THEN PI
        ELSE acos(cosine)

\* The semi-latus rectum of a Keplerian element set: read directly when
\* the orbit is parabolic, a (1 - e^2) otherwise.
SemiLatusRectum(kep) ==
    IF IsParabolic(kep[eccentricityIndex])
    THEN kep[semiLatusRectumIndex]
    ELSE FMul(kep[semiMajorAxisIndex],
              FSub(One, FMul(kep[eccentricityIndex], kep[eccentricityIndex])))

\* A vector of the orbital plane, given by its components along the node
\* and 90 degrees ahead of it, rotated by the inclination and the node.
RotateToInertial(x, y, inclination, node) ==
    <<FSub(FMul(x, cos(node)), FMul(FMul(y, cos(inclination)), sin(node))),
      FAdd(FMul(x, sin(node)), FMul(FMul(y, cos(inclination)), cos(node))),
      FMul(y, sin(inclination))>>

convertKeplerianToCartesianElements(kep, mu) ==
    LET e == kep[eccentricityIndex]
        w == kep[argumentOfPeriapsisIndex]
        nu == kep[trueAnomalyIndex]
        u == w + nu
        semiLatusRectum == SemiLatusRectum(kep)
        radius == FDiv(semiLatusRectum, FAdd(One, FMul(e, cos(nu))))
        speed == FSqrt(FDiv(mu, semiLatusRectum))
    IN  [position |->
             RotateToInertial(FMul(radius, cos(u)), FMul(radius, sin(u)),
                              kep[inclinationIndex],
                              kep[longitudeOfAscendingNodeIndex]),
         velocity |->
             RotateToInertial(
                 FNeg(FMul(speed, FAdd(sin(u), FMul(e, sin(w))))),
                 FMul(speed, FAdd(cos(u), FMul(e, cos(w)))),
                 kep[inclinationIndex],
                 kep[longitudeOfAscendingNodeIndex])]

\* Only |r| = 0.
IsDegenerateIgnoringMomentum(r, h) == Norm(r) = 0

\* |r| = 0 or |h| = 0.
IsDegenerate(r, h) == Norm(r) = 0 \/ Norm(h) = 0

\* e_vec = (v x h) / mu - r / |r|.
EccentricityVector(r, v, h, mu) ==
    LET vh == Cross(v, h)
    IN  [j \in 1..3 |-> FSub(FDiv(vh[j], mu), FDiv(r[j], Norm(r)))]

\* The angle as it is, whatever the test says.
DisambiguateNever(angle, secondHalf) == WrapAngle(angle)

\* 2 pi - angle when the test says so, in [0, 2 pi).
Disambiguate(angle, secondHalf) ==
    WrapAngle(IF secondHalf THEN FSub(TwoPI, angle) ELSE angle)

\* The node vector n = z x h.
NodeVector(h) == <<FNeg(h[2]), h[1], 0>>

\* The orbit counts as equatorial: |n| is below the singularity tolerance.
IsEquatorial(h) == Norm(NodeVector(h)) < singularityTolerance

\* No orbit counts as circular.
IsCircularOrbitNever(eccentricity) == FALSE

\* The orbit counts as circular: the eccentricity is below the tolerance.
IsCircularOrbit(eccentricity) == eccentricity < singularityTolerance

\* The half of the orbit after apoapsis, whatever r.v is.
IsInboundAlways(r, v) == TRUE

\* The body is past apoapsis and before periapsis: r.v < 0.
IsInbound(r, v) == Dot(r, v) < 0

\* Steps 1 to 6 of the Cartesian to Keplerian conversion.
CartesianToKeplerianVector(r, v, h, mu) ==
    LET eccentricityVector == EccentricityVector(r, v, h, mu)
        eccentricity == Norm(eccentricityVector)
        semiLatusRectum == FDiv(Dot(h, h), mu)
        n == NodeVector(h)
        equatorial == IsEquatorial(h)
        circular == IsCircularOrbit(eccentricity)
        reference == IF equatorial THEN <<One, 0, 0>> ELSE n
    IN  [ix \in KeplerianIndices |->
           CASE ix = semiMajorAxisIndex ->
                    IF IsParabolic(eccentricity)
                    THEN semiLatusRectum
                    ELSE FDiv(semiLatusRectum,
                              FSub(One, FMul(eccentricity, eccentricity)))
             [] ix = eccentricityIndex -> eccentricity
             [] ix = inclinationIndex -> acos(FDiv(h[3], Norm(h)))
             [] ix = longitudeOfAscendingNodeIndex ->
                    IF equatorial THEN 0 ELSE WrapAngle(atan2(n[2], n[1]))
             [] ix = argumentOfPeriapsisIndex ->
                    IF circular THEN 0
                    ELSE Disambiguate(
                             AngleBetween(reference, eccentricityVector),
                             IF equatorial THEN eccentricityVector[2] < 0
                             ELSE eccentricityVector[3] < 0)
             [] OTHER ->
                    IF circular
                    THEN Disambiguate(AngleBetween(reference, r),
                                      IF equatorial THEN r[2] < 0
                                      ELSE r[3] < 0)
                    ELSE Disambiguate(AngleBetween(eccentricityVector, r),
                                      IsInbound(r, v))]

convertCartesianToKeplerianElements(cart, mu) ==
    LET h == Cross(cart.position, cart.velocity)
    IN  IF IsDegenerate(cart.position, h)
        THEN [outcome |-> "InvalidGeometry", value |-> ZeroKeplerian]
        ELSE [outcome |-> "returned",
              value |-> CartesianToKeplerianVector(
                            cart.position, cart.velocity, h, mu)]

\* Inclinations below pi: every multiple of 45 degrees of [0, pi).
CartesianInclinationInputs == {2 * k : k \in 0..(HalfPI - 1)}

CartesianEccentricityInputs == {0, One \div 2, One, 2 * One}

\* The body is on the orbit: 1 + e cos(nu) > 0.
IsOnOrbit(kep) ==
    FAdd(One, FMul(kep[eccentricityIndex], cos(kep[trueAnomalyIndex]))) > 0

\* Valid Keplerian elements, the undefined angles supplied as 0.
CartesianKeplerianInputs ==
    {kep \in KeplerianInputs :
        /\ kep[eccentricityIndex] \in CartesianEccentricityInputs
        /\ kep[inclinationIndex] \in CartesianInclinationInputs
        /\ kep[inclinationIndex] = 0 =>
               kep[longitudeOfAscendingNodeIndex] = 0
        /\ kep[eccentricityIndex] = 0 => kep[argumentOfPeriapsisIndex] = 0
        /\ IsOnOrbit(kep)}

ComponentInputs == {-One, 0, One}

\* The state of the book example: (1, 2, 1) and (-0.25, -0.25, 0.5).
BookExample ==
    [position |-> <<One, 2 * One, One>>,
     velocity |-> <<-(One \div 4), -(One \div 4), One \div 2>>]

\* Cartesian states given directly, the degenerate ones and the book
\* example among them.
CartesianInputs ==
    {[position |-> <<x, y, z>>, velocity |-> <<xDot, yDot, zDot>>] :
        x \in ComponentInputs, y \in ComponentInputs, z \in ComponentInputs,
        xDot \in ComponentInputs, yDot \in ComponentInputs,
        zDot \in ComponentInputs}
    \cup {BookExample}

\* The caller starts either from Keplerian elements or from a Cartesian
\* state of its own.
CartesianInit ==
    /\ gravitationalParameter \in GravitationalParameterInputs
    /\ \/ /\ cartesianPc = "keplerian"
          /\ keplerianInput \in CartesianKeplerianInputs
          /\ cartesianElements = ZeroCartesian
       \/ /\ cartesianPc = "cartesian"
          /\ keplerianInput = ZeroKeplerian
          /\ cartesianElements \in CartesianInputs
    /\ computedKeplerianElements = ZeroKeplerian
    /\ cartesianToKeplerianOutcome = "none"
    /\ UsmUnused
    /\ RootUnused
    /\ AnomalyUnused
    /\ ThrustUnused
    /\ RoundTripUnused

CallKeplerianToCartesian ==
    /\ cartesianPc = "keplerian"
    /\ cartesianElements' =
           convertKeplerianToCartesianElements(keplerianInput,
                                               gravitationalParameter)
    /\ cartesianPc' = "converted"
    /\ UNCHANGED <<keplerianInput, gravitationalParameter,
                   computedKeplerianElements, cartesianToKeplerianOutcome>>
    /\ UNCHANGED <<usmVars, rootVars, anomalyVars, thrustVars,
                   roundTripVars>>

CallCartesianToKeplerian ==
    /\ cartesianPc \in {"cartesian", "converted"}
    /\ \E r \in {convertCartesianToKeplerianElements(
                    cartesianElements, gravitationalParameter)} :
           /\ cartesianToKeplerianOutcome' = r.outcome
           /\ computedKeplerianElements' =
                  (IF r.outcome = "returned" THEN r.value
                   ELSE computedKeplerianElements)
    /\ cartesianPc' = (IF cartesianPc = "converted" THEN "roundTripDone"
                       ELSE "directDone")
    /\ UNCHANGED <<keplerianInput, gravitationalParameter, cartesianElements>>
    /\ UNCHANGED <<usmVars, rootVars, anomalyVars, thrustVars,
                   roundTripVars>>

CartesianNext == CallKeplerianToCartesian \/ CallCartesianToKeplerian

SpecCartesian == CartesianInit /\ [][CartesianNext]_vars


(* ---------------------------------------------------------------------- *)
(* Properties of the Cartesian conversions                                 *)
(* ---------------------------------------------------------------------- *)

\* Two doubles differ by at most 2 percent of the second.
CloseRelative(x, y) ==
    IsFinite(x) /\ IsFinite(y) /\ 50 * Abs(x - y) <= Abs(y)

CartesianToKeplerianEnded == cartesianToKeplerianOutcome # "none"

C21_DegenerateAngleConventions ==
    cartesianToKeplerianOutcome = "returned" =>
        LET r == cartesianElements.position
            h == Cross(r, cartesianElements.velocity)
            equatorial ==
                ISqrt(h[1] * h[1] + h[2] * h[2]) < singularityTolerance
            circular ==
                computedKeplerianElements[eccentricityIndex]
                    < singularityTolerance
        IN  /\ equatorial =>
                   computedKeplerianElements[longitudeOfAscendingNodeIndex]
                       = 0
            /\ circular =>
                   computedKeplerianElements[argumentOfPeriapsisIndex] = 0
            /\ (equatorial /\ circular) =>
                   computedKeplerianElements[trueAnomalyIndex]
                       = atan2(r[2], r[1]) % TwoPI

\* A circular equatorial state with the body 225 degrees from the x-axis
\* has been converted.
C21_CircularEquatorialConverted ==
    /\ cartesianToKeplerianOutcome = "returned"
    /\ cartesianElements.position[3] = 0
    /\ cartesianElements.velocity[3] = 0
    /\ computedKeplerianElements[eccentricityIndex] < singularityTolerance
    /\ computedKeplerianElements[inclinationIndex] = 0
    /\ computedKeplerianElements[longitudeOfAscendingNodeIndex] = 0
    /\ computedKeplerianElements[argumentOfPeriapsisIndex] = 0
    /\ computedKeplerianElements[trueAnomalyIndex] = PI + PI \div 4

RECURSIVE ArcTangentSearch(_, _, _, _)
ArcTangentSearch(lo, hi, opposite, adjacent) ==
    IF hi - lo <= 1
    THEN IF Abs(sinRadians(lo) * adjacent - cosRadians(lo) * opposite)
              <= Abs(sinRadians(hi) * adjacent - cosRadians(hi) * opposite)
         THEN lo ELSE hi
    ELSE CHOOSE angle \in
             {IF sinRadians(mid) * adjacent < cosRadians(mid) * opposite
              THEN ArcTangentSearch(mid, hi, opposite, adjacent)
              ELSE ArcTangentSearch(lo, mid, opposite, adjacent) :
                  mid \in {(lo + hi) \div 2}} : TRUE

\* std::atan2 of two doubles, in (-pi, pi].
atan2Radians(y, x) ==
    IF IsNaN(y) \/ IsNaN(x) THEN NaN
    ELSE IF x = 0 /\ y = 0 THEN 0
    ELSE LET base == IF Abs(y) <= Abs(x)
                     THEN ArcTangentSearch(0, HalfPiRadians \div 2 + 1,
                                           Abs(y), Abs(x))
                     ELSE HalfPiRadians -
                          ArcTangentSearch(0, HalfPiRadians \div 2 + 1,
                                           Abs(x), Abs(y))
         IN  IF x >= 0
             THEN Sign(y) * base
             ELSE IF y >= 0 THEN PiRadians - base ELSE base - PiRadians

\* The angle of [lo, hi], within [0, pi], whose cosine is y.
RECURSIVE ArcCosineSearch(_, _, _)
ArcCosineSearch(lo, hi, y) ==
    IF hi - lo <= 1
    THEN IF Abs(cosRadians(lo) - y) <= Abs(cosRadians(hi) - y)
         THEN lo ELSE hi
    ELSE CHOOSE angle \in
             {IF cosRadians(mid) > y
              THEN ArcCosineSearch(mid, hi, y)
              ELSE ArcCosineSearch(lo, mid, y) :
                  mid \in {(lo + hi) \div 2}} : TRUE

\* std::acos of a double: NaN outside [-1, 1].
acosRadians(y) ==
    IF IsNaN(y) \/ y > One \/ y < -One
    THEN NaN
    ELSE ArcCosineSearch(0, PiRadians, y)

\* The non-negative H of [lo, hi] whose hyperbolic cosine is y.
RECURSIVE AreaCosineSearch(_, _, _)
AreaCosineSearch(lo, hi, y) ==
    IF hi - lo <= 1
    THEN IF Abs(cosh(lo) - y) <= Abs(cosh(hi) - y) THEN lo ELSE hi
    ELSE CHOOSE area \in
             {IF cosh(mid) < y
              THEN AreaCosineSearch(mid, hi, y)
              ELSE AreaCosineSearch(lo, mid, y) :
                  mid \in {(lo + hi) \div 2}} : TRUE

\* acosh of a double: NaN below 1.
acosh(y) ==
    IF IsNaN(y) \/ y < One THEN NaN
    ELSE IF y > cosh(HyperbolicLimit) THEN Inf
    ELSE AreaCosineSearch(0, HyperbolicLimit, y)

\* The eccentricity is negative or above 1.
OutsideEllipticalDomainAboveOne(eccentricity) ==
    eccentricity < 0 \/ eccentricity > One

\* The eccentricity is outside the domain of the conversions of an ellipse.
OutsideEllipticalDomain(eccentricity) == eccentricity < 0 \/ eccentricity >= One

\* The eccentricity is outside the domain of those of a hyperbola.
OutsideHyperbolicDomain(eccentricity) == eccentricity <= One

\* sqrt(1 - e^2).
AxisRatio(eccentricity) ==
    FSqrt(FSub(One, FMul(eccentricity, eccentricity)))

Returned(value) == [outcome |-> "returned", value |-> value]

InvalidInput == [outcome |-> "InvalidInput", value |-> 0]

\* E = atan2(sqrt(1 - e^2) sin(nu), e + cos(nu)), in [0, 2 pi).
convertTrueAnomalyToEccentricAnomaly(trueAnomaly, eccentricity) ==
    IF OutsideEllipticalDomain(eccentricity)
    THEN InvalidInput
    ELSE Returned(WrapRadians(atan2Radians(
             FMul(AxisRatio(eccentricity), sinRadians(trueAnomaly)),
             FAdd(eccentricity, cosRadians(trueAnomaly)))))

\* nu = atan2(sqrt(1 - e^2) sin(E), cos(E) - e), in [0, 2 pi).
convertEccentricAnomalyToTrueAnomaly(eccentricAnomaly, eccentricity) ==
    IF OutsideEllipticalDomain(eccentricity)
    THEN InvalidInput
    ELSE Returned(WrapRadians(atan2Radians(
             FMul(AxisRatio(eccentricity), sinRadians(eccentricAnomaly)),
             FSub(cosRadians(eccentricAnomaly), eccentricity))))

\* cosh(H) = (e + cos(nu)) / (1 + e cos(nu)), the sign of H that of nu.
convertTrueAnomalyToHyperbolicEccentricAnomaly(trueAnomaly, eccentricity) ==
    IF OutsideHyperbolicDomain(eccentricity)
    THEN InvalidInput
    ELSE LET cosine == cosRadians(trueAnomaly)
             magnitude ==
                 acosh(FDiv(FAdd(eccentricity, cosine),
                            FAdd(One, FMul(eccentricity, cosine))))
         IN  Returned(IF IsNaN(magnitude) THEN NaN
                      ELSE IF WrapSigned(trueAnomaly) < 0
                      THEN FNeg(magnitude) ELSE magnitude)

\* cos(nu) = (e - cosh(H)) / (e cosh(H) - 1), the sign of nu that of H,
\* in [0, 2 pi).
convertHyperbolicEccentricAnomalyToTrueAnomaly(anomaly, eccentricity) ==
    IF OutsideHyperbolicDomain(eccentricity)
    THEN InvalidInput
    ELSE LET hyperbolicCosine == cosh(anomaly)
             magnitude ==
                 acosRadians(FDiv(FSub(eccentricity, hyperbolicCosine),
                                  FSub(FMul(eccentricity, hyperbolicCosine),
                                       One)))
         IN  Returned(WrapRadians(IF anomaly < 0
                                  THEN FNeg(magnitude) ELSE magnitude))


AnomalyFunctions ==
    {"convertTrueAnomalyToEccentricAnomaly",
     "convertEccentricAnomalyToTrueAnomaly",
     "convertTrueAnomalyToHyperbolicEccentricAnomaly",
     "convertHyperbolicEccentricAnomalyToTrueAnomaly"}

\* Angles: every multiple of 45 degrees of [0, 2 pi), the true anomaly of
\* Test 2 (61.6755418 degrees) and a negative hyperbolic anomaly.
AnomalyInputs ==
    {RDiv(k * PiRadians, 4) : k \in 0..7}
        \cup {RDiv(61676 * PiRadians, 180000), -(One \div 2)}

\* Eccentricities: negative, circular, that of Test 2 (0.01671),
\* elliptical, parabolic, hyperbolic, that of Test 4 (3.0).
AnomalyEccentricityInputs ==
    {-(One \div 2), 0, TestSevenEccentricity, One \div 2, One, 2 * One,
     3 * One}

AnomalyInit ==
    /\ anomalyFunction \in AnomalyFunctions
    /\ anomalyArgument \in AnomalyInputs
    /\ anomalyEccentricity \in AnomalyEccentricityInputs
    /\ anomalyOutcome = "none"
    /\ anomalyValue = 0
    /\ UsmUnused
    /\ RootUnused
    /\ CartesianUnused
    /\ ThrustUnused
    /\ RoundTripUnused

\* The caller takes what the conversion hands back.
TakeAnomaly(result) ==
    /\ anomalyOutcome = "none"
    /\ anomalyOutcome' = result.outcome
    /\ anomalyValue' =
           (IF result.outcome = "returned" THEN result.value
            ELSE anomalyValue)
    /\ UNCHANGED <<anomalyFunction, anomalyArgument, anomalyEccentricity>>
    /\ UNCHANGED <<usmVars, rootVars, cartesianVars, thrustVars,
                   roundTripVars>>

CallTrueToEccentric ==
    /\ anomalyFunction = "convertTrueAnomalyToEccentricAnomaly"
    /\ \E r \in {convertTrueAnomalyToEccentricAnomaly(
                    anomalyArgument, anomalyEccentricity)} : TakeAnomaly(r)

CallEccentricToTrue ==
    /\ anomalyFunction = "convertEccentricAnomalyToTrueAnomaly"
    /\ \E r \in {convertEccentricAnomalyToTrueAnomaly(
                    anomalyArgument, anomalyEccentricity)} : TakeAnomaly(r)

CallTrueToHyperbolicEccentric ==
    /\ anomalyFunction = "convertTrueAnomalyToHyperbolicEccentricAnomaly"
    /\ \E r \in {convertTrueAnomalyToHyperbolicEccentricAnomaly(
                    anomalyArgument, anomalyEccentricity)} : TakeAnomaly(r)

CallHyperbolicEccentricToTrue ==
    /\ anomalyFunction = "convertHyperbolicEccentricAnomalyToTrueAnomaly"
    /\ \E r \in {convertHyperbolicEccentricAnomalyToTrueAnomaly(
                    anomalyArgument, anomalyEccentricity)} : TakeAnomaly(r)

AnomalyNext ==
    \/ CallTrueToEccentric
    \/ CallEccentricToTrue
    \/ CallTrueToHyperbolicEccentric
    \/ CallHyperbolicEccentricToTrue

SpecAnomaly == AnomalyInit /\ [][AnomalyNext]_vars

(* ---------------------------------------------------------------------- *)
(* Properties of the anomaly conversions                                   *)
(* ---------------------------------------------------------------------- *)

EllipticalFunctions ==
    {"convertTrueAnomalyToEccentricAnomaly",
     "convertEccentricAnomalyToTrueAnomaly"}

\* C10: a conversion of an ellipse fails with Invalid-Input, and hands no
\* angle to its caller, exactly when e < 0 or e >= 1; a conversion of a
\* hyperbola does so exactly when e <= 1.
C10_EccentricityDomainChecked ==
    anomalyOutcome # "none" =>
        /\ anomalyOutcome \in {"returned", "InvalidInput"}
        /\ (anomalyOutcome = "InvalidInput")
              <=> IF anomalyFunction \in EllipticalFunctions
                  THEN anomalyEccentricity < 0 \/ anomalyEccentricity >= One
                  ELSE anomalyEccentricity <= One
        /\ anomalyOutcome = "InvalidInput" => anomalyValue = 0

\* A conversion of an ellipse has been refused a parabolic eccentricity.
C10_ParabolicRejectedByElliptical ==
    /\ anomalyFunction \in EllipticalFunctions
    /\ anomalyEccentricity = One
    /\ anomalyArgument > 0
    /\ anomalyOutcome = "InvalidInput"

(* ---------------------------------------------------------------------- *)
(* Mean anomaly and elapsed time; a caller applying a conversion and then  *)
(* its inverse                                                             *)
(* ---------------------------------------------------------------------- *)

\* The mean anomaly with the eccentricity taken for zero.
MeanAnomalyWithoutEccentricity(eccentricAnomaly, eccentricity) ==
    eccentricAnomaly

\* M = E - e sin E
convertEccentricAnomalyToMeanAnomaly(eccentricAnomaly, eccentricity) ==
    FSub(eccentricAnomaly, FMul(eccentricity, sinRadians(eccentricAnomaly)))

\* M = e sinh H - H
convertHyperbolicEccentricAnomalyToMeanAnomaly(anomaly, eccentricity) ==
    FSub(FMul(eccentricity, sinh(anomaly)), anomaly)

\* The inversion of Kepler's equation by the root-finding engine.
convertMeanAnomalyToEccentricAnomaly(meanAnomaly, e, tolerance, cap) ==
    NewtonRaphson(MeanToEccentricProblem(e, meanAnomaly, tolerance, cap),
                  meanAnomaly, 0)

\* The inversion of the hyperbolic analogue by the same engine.
convertMeanAnomalyToHyperbolicEccentricAnomaly(meanAnomaly, e, tolerance, cap) ==
    NewtonRaphson(
        MeanToHyperbolicEccentricProblem(e, meanAnomaly, tolerance, cap),
        meanAnomaly, 0)

\* n = sqrt(mu / a^3) for a > 0, sqrt(mu / (-a)^3) for a < 0.
MeanMotion(mu, semiMajorAxis) ==
    LET size == FAbs(semiMajorAxis)
    IN  FSqrt(FDiv(mu, FMul(FMul(size, size), size)))

\* n dt brought into [0, 2 pi).
ElapsedTimeToMeanAnomalyWrapped(elapsedTime, mu, semiMajorAxis) ==
    WrapRadians(FMul(MeanMotion(mu, semiMajorAxis), elapsedTime))

\* M = n dt, as it comes.
ElapsedTimeToMeanAnomaly(elapsedTime, mu, semiMajorAxis) ==
    FMul(MeanMotion(mu, semiMajorAxis), elapsedTime)

\* dt = M / n
MeanAnomalyToElapsedTime(meanAnomaly, mu, semiMajorAxis) ==
    FDiv(meanAnomaly, MeanMotion(mu, semiMajorAxis))

convertElapsedTimeToMeanAnomalyForEllipticalOrbits(elapsedTime, mu, a) ==
    ElapsedTimeToMeanAnomaly(elapsedTime, mu, a)

convertMeanAnomalyToElapsedTimeForEllipticalOrbits(meanAnomaly, mu, a) ==
    MeanAnomalyToElapsedTime(meanAnomaly, mu, a)

convertElapsedTimeToMeanAnomalyForHyperbolicOrbits(elapsedTime, mu, a) ==
    ElapsedTimeToMeanAnomaly(elapsedTime, mu, a)

convertMeanAnomalyToElapsedTimeForHyperbolicOrbits(meanAnomaly, mu, a) ==
    MeanAnomalyToElapsedTime(meanAnomaly, mu, a)

\* Eccentricities of the ellipses: circular, that of Test 2, 0.5 and 0.9.
EllipseEccentricityInputs ==
    {0, TestSevenEccentricity, One \div 2, (9 * One) \div 10}

\* Eccentricities of the hyperbolas: 1.5, that of Test 9 and that of Test 4.
HyperbolaEccentricityInputs ==
    {(3 * One) \div 2, TestNineEccentricity, 3 * One}

\* True and eccentric anomalies: every multiple of 45 degrees of [0, 2 pi)
\* and the true anomaly of Test 2.
EllipseAnomalyInputs ==
    {RDiv(k * PiRadians, 4) : k \in 0..7}
        \cup {RDiv(61676 * PiRadians, 180000)}

\* The true anomaly lies between the asymptotes of the hyperbola:
\* 1 + e cos(nu) > 0.
BetweenAsymptotes(trueAnomaly, eccentricity) ==
    FGt(FAdd(One, FMul(eccentricity, cosRadians(trueAnomaly))), 0)

\* Hyperbolic eccentric anomalies, that of Test 9 among them.
HyperbolicAnomalyInputs ==
    {-One, -(One \div 2), One \div 2, One, RDiv(16014 * Scale, 10000)}

\* Elapsed times, gravitational parameters and semi-major axes.
ElapsedTimeInputs == {0, One, 4 * One, 20 * One}

RoundTripGravitationalParameterInputs == {One, 4 * One}

EllipseSemiMajorAxisInputs == {One, 2 * One}

HyperbolaSemiMajorAxisInputs == {-One, -(2 * One)}

\* The tolerance and the caps the caller gives the engine.
RoundTripToleranceInputs == {2}

RoundTripCapInputs == {2, MaxIterationCap}

AnomalyRoundTrip(kind, argument, eccentricity) ==
    [kind |-> kind, argument |-> argument, eccentricity |-> eccentricity]

MeanRoundTrip(kind, argument, eccentricity, tolerance, cap) ==
    [kind |-> kind, argument |-> argument, eccentricity |-> eccentricity,
     tolerance |-> tolerance, maximumNumberOfIterations |-> cap]

TimeRoundTrip(kind, elapsedTime, mu, semiMajorAxis) ==
    [kind |-> kind, argument |-> elapsedTime, mu |-> mu,
     semiMajorAxis |-> semiMajorAxis]

RoundTripInputs ==
    {AnomalyRoundTrip("trueToEccentric", nu, e) :
        nu \in EllipseAnomalyInputs, e \in EllipseEccentricityInputs}
    \cup
    {AnomalyRoundTrip("trueToHyperbolicEccentric", nu, e) :
        nu \in EllipseAnomalyInputs, e \in HyperbolaEccentricityInputs}
    \cup
    {MeanRoundTrip("eccentricToMean", E, e, tolerance, cap) :
        E \in EllipseAnomalyInputs, e \in EllipseEccentricityInputs,
        tolerance \in RoundTripToleranceInputs, cap \in RoundTripCapInputs}
    \cup
    {MeanRoundTrip("hyperbolicEccentricToMean", H, e, tolerance, cap) :
        H \in HyperbolicAnomalyInputs, e \in HyperbolaEccentricityInputs,
        tolerance \in RoundTripToleranceInputs, cap \in RoundTripCapInputs}
    \cup
    {TimeRoundTrip("elapsedTimeToMeanAnomalyElliptical", dt, mu, a) :
        dt \in ElapsedTimeInputs,
        mu \in RoundTripGravitationalParameterInputs,
        a \in EllipseSemiMajorAxisInputs}
    \cup
    {TimeRoundTrip("elapsedTimeToMeanAnomalyHyperbolic", dt, mu, a) :
        dt \in ElapsedTimeInputs,
        mu \in RoundTripGravitationalParameterInputs,
        a \in HyperbolaSemiMajorAxisInputs}

RoundTripInit ==
    /\ roundTripPc = "start"
    /\ roundTripInput \in RoundTripInputs
    /\ forwardResult = NoResult
    /\ backResult = NoResult
    /\ UsmUnused
    /\ RootUnused
    /\ CartesianUnused
    /\ AnomalyUnused
    /\ ThrustUnused

\* A conversion of the given kind is due.
ForwardDue(kind) ==
    /\ roundTripPc = "start"
    /\ roundTripInput.kind = kind

\* The inverse of a conversion of the given kind is due.
BackDue(kind) ==
    /\ roundTripPc = "converted"
    /\ roundTripInput.kind = kind

\* The caller takes what the conversion handed back.
TakeForward(result) ==
    /\ forwardResult' = result
    /\ roundTripPc' = (IF result.outcome = "returned" THEN "converted"
                       ELSE "failed")
    /\ UNCHANGED <<roundTripInput, backResult>>
    /\ UNCHANGED <<usmVars, rootVars, cartesianVars, anomalyVars, thrustVars>>

\* The caller takes what the inverse handed back.
TakeBack(result) ==
    /\ backResult' = result
    /\ roundTripPc' = (IF result.outcome \in {"returned", "converged"}
                       THEN "done" ELSE "failed")
    /\ UNCHANGED <<roundTripInput, forwardResult>>
    /\ UNCHANGED <<usmVars, rootVars, cartesianVars, anomalyVars, thrustVars>>

ForwardTrueToEccentric ==
    /\ ForwardDue("trueToEccentric")
    /\ \E r \in {convertTrueAnomalyToEccentricAnomaly(
                     roundTripInput.argument, roundTripInput.eccentricity)} :
           TakeForward(r)

BackEccentricToTrue ==
    /\ BackDue("trueToEccentric")
    /\ \E r \in {convertEccentricAnomalyToTrueAnomaly(
                     forwardResult.value, roundTripInput.eccentricity)} :
           TakeBack(r)

ForwardTrueToHyperbolicEccentric ==
    /\ ForwardDue("trueToHyperbolicEccentric")
    /\ \E r \in {convertTrueAnomalyToHyperbolicEccentricAnomaly(
                     roundTripInput.argument, roundTripInput.eccentricity)} :
           TakeForward(r)

BackHyperbolicEccentricToTrue ==
    /\ BackDue("trueToHyperbolicEccentric")
    /\ \E r \in {convertHyperbolicEccentricAnomalyToTrueAnomaly(
                     forwardResult.value, roundTripInput.eccentricity)} :
           TakeBack(r)

ForwardEccentricToMean ==
    /\ ForwardDue("eccentricToMean")
    /\ \E r \in {Returned(convertEccentricAnomalyToMeanAnomaly(
                     roundTripInput.argument, roundTripInput.eccentricity))} :
           TakeForward(r)

BackMeanToEccentric ==
    /\ BackDue("eccentricToMean")
    /\ \E r \in {convertMeanAnomalyToEccentricAnomaly(
                     forwardResult.value, roundTripInput.eccentricity,
                     roundTripInput.tolerance,
                     roundTripInput.maximumNumberOfIterations)} :
           TakeBack(r)

ForwardHyperbolicEccentricToMean ==
    /\ ForwardDue("hyperbolicEccentricToMean")
    /\ \E r \in {Returned(convertHyperbolicEccentricAnomalyToMeanAnomaly(
                     roundTripInput.argument, roundTripInput.eccentricity))} :
           TakeForward(r)

BackMeanToHyperbolicEccentric ==
    /\ BackDue("hyperbolicEccentricToMean")
    /\ \E r \in {convertMeanAnomalyToHyperbolicEccentricAnomaly(
                     forwardResult.value, roundTripInput.eccentricity,
                     roundTripInput.tolerance,
                     roundTripInput.maximumNumberOfIterations)} :
           TakeBack(r)

ForwardElapsedTimeElliptical ==
    /\ ForwardDue("elapsedTimeToMeanAnomalyElliptical")
    /\ \E r \in {Returned(convertElapsedTimeToMeanAnomalyForEllipticalOrbits(
                     roundTripInput.argument, roundTripInput.mu,
                     roundTripInput.semiMajorAxis))} :
           TakeForward(r)

BackMeanAnomalyElliptical ==
    /\ BackDue("elapsedTimeToMeanAnomalyElliptical")
    /\ \E r \in {Returned(convertMeanAnomalyToElapsedTimeForEllipticalOrbits(
                     forwardResult.value, roundTripInput.mu,
                     roundTripInput.semiMajorAxis))} :
           TakeBack(r)

ForwardElapsedTimeHyperbolic ==
    /\ ForwardDue("elapsedTimeToMeanAnomalyHyperbolic")
    /\ \E r \in {Returned(convertElapsedTimeToMeanAnomalyForHyperbolicOrbits(
                     roundTripInput.argument, roundTripInput.mu,
                     roundTripInput.semiMajorAxis))} :
           TakeForward(r)

BackMeanAnomalyHyperbolic ==
    /\ BackDue("elapsedTimeToMeanAnomalyHyperbolic")
    /\ \E r \in {Returned(convertMeanAnomalyToElapsedTimeForHyperbolicOrbits(
                     forwardResult.value, roundTripInput.mu,
                     roundTripInput.semiMajorAxis))} :
           TakeBack(r)

RoundTripNext ==
    \/ ForwardTrueToEccentric
    \/ BackEccentricToTrue
    \/ ForwardTrueToHyperbolicEccentric
    \/ BackHyperbolicEccentricToTrue
    \/ ForwardEccentricToMean
    \/ BackMeanToEccentric
    \/ ForwardHyperbolicEccentricToMean
    \/ BackMeanToHyperbolicEccentric
    \/ ForwardElapsedTimeElliptical
    \/ BackMeanAnomalyElliptical
    \/ ForwardElapsedTimeHyperbolic
    \/ BackMeanAnomalyHyperbolic

SpecRoundTrip == RoundTripInit /\ [][RoundTripNext]_vars

(* ---------------------------------------------------------------------- *)
(* Properties of the round trips                                           *)
(* ---------------------------------------------------------------------- *)

\* The caller has applied the inverse, whatever it handed back.
RoundTripEnded(kinds) ==
    /\ roundTripInput.kind \in kinds
    /\ backResult # NoResult

\* The inverse handed back a number close to what the round trip began with.
BackToArgument ==
    /\ backResult.outcome \in {"returned", "converged"}
    /\ Close(backResult.value, roundTripInput.argument)

\* The closed-form round trips: true to eccentric anomaly and back for
\* 0 <= e < 0.99 and a true anomaly in [0, 2 pi); true to hyperbolic
\* eccentric anomaly and back for e > 1 and the true anomalies admitted.
ClosedFormRoundTrips(admitted) ==
    /\ (/\ RoundTripEnded({"trueToEccentric"})
        /\ roundTripInput.eccentricity >= 0
        /\ roundTripInput.eccentricity < (99 * One) \div 100
        /\ roundTripInput.argument >= 0
        /\ roundTripInput.argument < TwoPiRadians)
           => BackToArgument
    /\ (/\ RoundTripEnded({"trueToHyperbolicEccentric"})
        /\ roundTripInput.eccentricity > One
        /\ roundTripInput.argument >= 0
        /\ roundTripInput.argument < TwoPiRadians
        /\ admitted)
           => BackToArgument

C15_ElapsedTimeMeanAnomalyInverse ==
    /\ (/\ roundTripInput.kind \in {"elapsedTimeToMeanAnomalyElliptical",
                                    "elapsedTimeToMeanAnomalyHyperbolic"}
        /\ forwardResult # NoResult)
           => /\ forwardResult.outcome = "returned"
              /\ forwardResult.value =
                     FMul(FSqrt(FDiv(roundTripInput.mu,
                                     FMul(FMul(FAbs(roundTripInput.semiMajorAxis),
                                               FAbs(roundTripInput.semiMajorAxis)),
                                          FAbs(roundTripInput.semiMajorAxis)))),
                          roundTripInput.argument)
    /\ RoundTripEnded({"elapsedTimeToMeanAnomalyElliptical",
                       "elapsedTimeToMeanAnomalyHyperbolic"})
           => BackToArgument

\* An elapsed time whose mean anomaly on a hyperbola is more than a
\* revolution has been converted and converted back.
C15_MoreThanOneRevolution ==
    /\ roundTripPc = "done"
    /\ roundTripInput.kind = "elapsedTimeToMeanAnomalyHyperbolic"
    /\ roundTripInput.semiMajorAxis < 0
    /\ forwardResult.value > TwoPiRadians
    /\ backResult.outcome = "returned"

(* ---------------------------------------------------------------------- *)
(* thrustAccelerationModel.h: class ThrustAcceleration                     *)
(*                                                                         *)
(* The functions given to the constructor belong to the user: what each    *)
(* returns when it is called is an input of the call.  The caller makes    *)
(* any sequence of calls on one object.                                    *)
(* ---------------------------------------------------------------------- *)

\* Calls made on the object in one behaviour.
MaxThrustCalls == 3

\* std::numeric_limits< double >::epsilon( ): the resolution of a double at
\* 1.0, one unit of this model.
epsilon == 1

\* TUDAT_NAN
TUDAT_NAN == NaN

\* Equality of the stored values, NaN equal to NaN.
FEqSameValue(a, b) == a = b

\* a == b on doubles: false when either side is NaN.
FEq(a, b) == ~IsNaN(a) /\ ~IsNaN(b) /\ a = b

\* Eigen::Vector3d::norm( )
norm(a) == ISqrt(a[1] * a[1] + a[2] * a[2] + a[3] * a[3])

\* The test that makes updateMembers throw:
\* ( std::fabs( direction.norm( ) ) - 1.0 ) > 10.0 * epsilon
DirectionRejected(direction) ==
    FGt(FSub(FAbs(norm(direction)), One), 10 * epsilon)

\* The acceleration with the body mass left out.
AccelerationWithoutMass(direction, magnitude, mass) ==
    [k \in 1..3 |-> FMul(direction[k], magnitude)]

\* currentAccelerationDirection_ * currentThrustMagnitude_ / bodyMass
Acceleration(direction, magnitude, mass) ==
    [k \in 1..3 |-> FDiv(FMul(direction[k], magnitude), mass)]

\* -massRateFunction_( )
MassRate(rate) == FNeg(rate)

\* The call made whether or not there is a function to call.
CallAlways(function, name, time) ==
    <<[function |-> name, argument |-> time]>>

\* The call of thrustUpdateFunction_ or timeResetFunction_, when there is
\* one to call.
CallIfSet(function, name, time) ==
    IF function = "set" THEN <<[function |-> name, argument |-> time]>>
    ELSE <<>>

\* The function called twice.
CallTwice(name) == <<[function |-> name], [function |-> name]>>

\* The call of a function without argument.
CallOf(name) == <<[function |-> name]>>

\* Times given to updateMembers and resetTime; NaN is the default argument.
TimeInputs == {TUDAT_NAN, 0, One}

\* What the direction function may return: two unit vectors, a vector
\* longer than 1 + 10 epsilon, one shorter than 1 - 10 epsilon and the zero
\* vector.
DirectionInputs ==
    {<<One, 0, 0>>, <<(3 * One) \div 5, (4 * One) \div 5, 0>>,
     <<One + 11 * epsilon, 0, 0>>, <<One - 11 * epsilon, 0, 0>>,
     <<0, 0, 0>>}

\* What the magnitude, mass-rate and body-mass functions may return to one
\* updateMembers.
EnvironmentInputs ==
    {[magnitude |-> One, massRate |-> One \div 10, bodyMass |-> One],
     [magnitude |-> 3 * One, massRate |-> One \div 5, bodyMass |-> 2 * One],
     [magnitude |-> 3 * One, massRate |-> One \div 10, bodyMass |-> One]}

\* What the members the constructor leaves uninitialised may hold.
UninitialisedDouble == {0, -One}

\* The object after construction: the base class sets the time to NaN, the
\* constructor stores the functions and initialises no other member.
ThrustInit ==
    /\ currentTime_ = TUDAT_NAN
    /\ \E u \in UninitialisedDouble :
           /\ currentAcceleration_ = <<u, u, u>>
           /\ currentAccelerationDirection_ = <<u, u, u>>
           /\ currentThrustMagnitude_ = u
           /\ currentMassRate_ = u
    /\ thrustUpdateFunction_ \in {"empty", "set"}
    /\ timeResetFunction_ \in {"empty", "set"}
    /\ thrustCalls = 0
    /\ lastCall = NoCall
    /\ recomputed = NoRecomputation
    /\ UsmUnused
    /\ RootUnused
    /\ CartesianUnused
    /\ AnomalyUnused
    /\ RoundTripUnused

\* updateMembers( currentTime ) with the stored time equal to currentTime:
\* nothing is done.
UpdateMembersSkip(currentTime) ==
    /\ FEq(currentTime_, currentTime)
    /\ lastCall' = [operation |-> "updateMembers", argument |-> currentTime,
                    outcome |-> "returned", recomputed |-> FALSE,
                    before |-> currentTime_, invoked |-> <<>>]
    /\ UNCHANGED <<currentTime_, currentAcceleration_,
                   currentAccelerationDirection_, currentThrustMagnitude_,
                   currentMassRate_, recomputed>>

\* updateMembers( currentTime ) throwing after it has stored the time.
UpdateMembersThrowTimeStored(currentTime, direction) ==
    /\ ~FEq(currentTime_, currentTime)
    /\ DirectionRejected(direction)
    /\ currentAccelerationDirection_' = direction
    /\ currentTime_' = currentTime
    /\ lastCall' = [operation |-> "updateMembers", argument |-> currentTime,
                    outcome |-> "runtime_error", recomputed |-> FALSE,
                    before |-> currentTime_,
                    invoked |->
                        CallIfSet(thrustUpdateFunction_,
                                  "thrustUpdateFunction_", currentTime)
                        \o CallOf("thrustDirectionFunction_")]
    /\ UNCHANGED <<currentAcceleration_, currentThrustMagnitude_,
                   currentMassRate_, recomputed>>

\* updateMembers( currentTime ) throwing on the direction it retrieved.
UpdateMembersThrow(currentTime, direction) ==
    /\ ~FEq(currentTime_, currentTime)
    /\ DirectionRejected(direction)
    /\ currentAccelerationDirection_' = direction
    /\ lastCall' = [operation |-> "updateMembers", argument |-> currentTime,
                    outcome |-> "runtime_error", recomputed |-> FALSE,
                    before |-> currentTime_,
                    invoked |->
                        CallIfSet(thrustUpdateFunction_,
                                  "thrustUpdateFunction_", currentTime)
                        \o CallOf("thrustDirectionFunction_")]
    /\ UNCHANGED <<currentTime_, currentAcceleration_,
                   currentThrustMagnitude_, currentMassRate_, recomputed>>

\* updateMembers( currentTime ) recomputing every member.
UpdateMembersRecompute(currentTime, direction, magnitude, rate, mass) ==
    /\ ~FEq(currentTime_, currentTime)
    /\ ~DirectionRejected(direction)
    /\ currentAccelerationDirection_' = direction
    /\ currentThrustMagnitude_' = magnitude
    /\ currentMassRate_' = MassRate(rate)
    /\ currentAcceleration_' = Acceleration(direction, magnitude, mass)
    /\ currentTime_' = currentTime
    /\ lastCall' = [operation |-> "updateMembers", argument |-> currentTime,
                    outcome |-> "returned", recomputed |-> TRUE,
                    before |-> currentTime_,
                    invoked |->
                        CallIfSet(thrustUpdateFunction_,
                                  "thrustUpdateFunction_", currentTime)
                        \o CallOf("thrustDirectionFunction_")
                        \o CallOf("thrustMagnitudeFunction_")
                        \o CallOf("massRateFunction_")
                        \o CallOf("bodyMassFunction_")]
    /\ recomputed' = [made |-> TRUE, time |-> currentTime,
                      direction |-> direction, magnitude |-> magnitude,
                      massRate |-> rate, bodyMass |-> mass]

\* void updateMembers( const double currentTime = TUDAT_NAN )
updateMembers ==
    /\ thrustCalls < MaxThrustCalls
    /\ thrustCalls' = thrustCalls + 1
    /\ \E currentTime \in TimeInputs :
           \/ UpdateMembersSkip(currentTime)
           \/ \E direction \in DirectionInputs :
                  \/ UpdateMembersThrow(currentTime, direction)
                  \/ \E env \in EnvironmentInputs :
                         UpdateMembersRecompute(
                             currentTime, direction, env.magnitude,
                             env.massRate, env.bodyMass)
    /\ UNCHANGED <<thrustUpdateFunction_, timeResetFunction_>>
    /\ UNCHANGED <<usmVars, rootVars, cartesianVars, anomalyVars,
                   roundTripVars>>

\* virtual void resetTime( const double currentTime = TUDAT_NAN )
resetTime ==
    /\ thrustCalls < MaxThrustCalls
    /\ thrustCalls' = thrustCalls + 1
    /\ \E currentTime \in TimeInputs :
           /\ currentTime_' = currentTime
           /\ lastCall' = [operation |-> "resetTime",
                           argument |-> currentTime, outcome |-> "returned",
                           before |-> currentTime_,
                           invoked |->
                               CallIfSet(timeResetFunction_,
                                         "timeResetFunction_", currentTime)]
    /\ UNCHANGED <<currentAcceleration_, currentAccelerationDirection_,
                   currentThrustMagnitude_, currentMassRate_,
                   thrustUpdateFunction_, timeResetFunction_, recomputed>>
    /\ UNCHANGED <<usmVars, rootVars, cartesianVars, anomalyVars,
                   roundTripVars>>

\* Eigen::Vector3d getAcceleration( )
getAcceleration ==
    /\ thrustCalls < MaxThrustCalls
    /\ thrustCalls' = thrustCalls + 1
    /\ lastCall' = [operation |-> "getAcceleration", outcome |-> "returned",
                    value |-> currentAcceleration_, invoked |-> <<>>]
    /\ UNCHANGED <<currentTime_, currentAcceleration_,
                   currentAccelerationDirection_, currentThrustMagnitude_,
                   currentMassRate_, thrustUpdateFunction_,
                   timeResetFunction_, recomputed>>
    /\ UNCHANGED <<usmVars, rootVars, cartesianVars, anomalyVars,
                   roundTripVars>>

\* double getCurrentMassRate( )
getCurrentMassRate ==
    /\ thrustCalls < MaxThrustCalls
    /\ thrustCalls' = thrustCalls + 1
    /\ lastCall' = [operation |-> "getCurrentMassRate",
                    outcome |-> "returned", value |-> currentMassRate_,
                    invoked |-> <<>>]
    /\ UNCHANGED <<currentTime_, currentAcceleration_,
                   currentAccelerationDirection_, currentThrustMagnitude_,
                   currentMassRate_, thrustUpdateFunction_,
                   timeResetFunction_, recomputed>>
    /\ UNCHANGED <<usmVars, rootVars, cartesianVars, anomalyVars,
                   roundTripVars>>

ThrustNext ==
    \/ updateMembers
    \/ resetTime
    \/ getAcceleration
    \/ getCurrentMassRate

SpecThrust == ThrustInit /\ [][ThrustNext]_vars

(* ---------------------------------------------------------------------- *)
(* Properties of ThrustAcceleration                                        *)
(* ---------------------------------------------------------------------- *)

\* C16: once an updateMembers has recomputed, the stored acceleration is
\* direction * magnitude / bodyMass and the stored mass rate is the negated
\* value of the mass-rate function, as these functions returned them to the
\* most recent recomputing updateMembers; getAcceleration and
\* getCurrentMassRate return exactly these, and neither a getter nor
\* resetTime nor a skipped or throwing updateMembers changes them.
C16_GettersReturnLastRecomputation ==
    recomputed.made
        => LET expected ==
                   [k \in 1..3 |->
                      FDiv(FMul(recomputed.direction[k],
                                recomputed.magnitude),
                           recomputed.bodyMass)]
           IN  /\ currentAcceleration_ = expected
               /\ currentMassRate_ = -recomputed.massRate
               /\ lastCall.operation = "getAcceleration"
                     => lastCall.value = expected
               /\ lastCall.operation = "getCurrentMassRate"
                     => lastCall.value = -recomputed.massRate

\* getAcceleration answered after a recomputation followed by resetTime.
C16_ReadAfterReset ==
    /\ recomputed.made
    /\ recomputed.bodyMass = 2 * One
    /\ recomputed.magnitude = 3 * One
    /\ IsNaN(currentTime_)
    /\ lastCall.operation = "getAcceleration"
    /\ lastCall.value = currentAcceleration_
    /\ lastCall.value[1] # 0

\* C17: a recomputing updateMembers raises an error whenever the norm of
\* the direction it retrieved differs from 1 by more than 10 epsilon, in
\* either direction, and stores no acceleration computed from such a
\* direction.
C17_NonUnitDirectionRejected ==
    /\ (/\ lastCall.operation = "updateMembers"
        /\ lastCall.invoked # <<>>
        /\ Abs(norm(currentAccelerationDirection_) - One) > 10 * epsilon)
          => lastCall.outcome = "runtime_error"
    /\ recomputed.made
          => Abs(norm(recomputed.direction) - One) <= 10 * epsilon

\* The step is a call of the given member function.
ThrustCallOf(operation) ==
    /\ thrustCalls' = thrustCalls + 1
    /\ lastCall'.operation = operation

\* C23: updateMembers( t ) recomputes if and only if t is not equal to the
\* stored time: with t equal to the stored time it invokes no user function
\* and leaves acceleration, direction, magnitude, mass rate and stored time
\* as they are; otherwise it enters the recomputation, and when that
\* completes the stored time is t.  A NaN t, or a NaN stored time, is equal
\* to nothing.
C23_RecomputesIffTimeDiffers ==
    [][ThrustCallOf("updateMembers") =>
          LET t == lastCall'.argument
          IN  IF t # NaN /\ currentTime_ # NaN /\ currentTime_ = t
              THEN /\ lastCall'.invoked = <<>>
                   /\ lastCall'.outcome = "returned"
                   /\ ~lastCall'.recomputed
                   /\ UNCHANGED <<currentTime_, currentAcceleration_,
                                  currentAccelerationDirection_,
                                  currentThrustMagnitude_, currentMassRate_>>
              ELSE /\ lastCall'.invoked # <<>>
                   /\ lastCall'.outcome = "returned"
                         => /\ lastCall'.recomputed
                            /\ currentTime_' = t
                            /\ recomputed'.time = t]_vars

\* updateMembers called with the time of the recomputation before it: it
\* was skipped, and the acceleration is the one of that recomputation.
C23_SecondUpdateSkipped ==
    /\ lastCall.operation = "updateMembers"
    /\ lastCall.argument = One
    /\ lastCall.before = One
    /\ lastCall.invoked = <<>>
    /\ recomputed.made
    /\ recomputed.time = One
    /\ currentTime_ = One

\* The functions a completed recomputation with the given time invokes, in
\* the order of the code, the update function only when there is one.
RecomputationOrder(time) ==
    (IF thrustUpdateFunction_ = "set"
     THEN <<[function |-> "thrustUpdateFunction_", argument |-> time]>>
     ELSE <<>>)
    \o <<[function |-> "thrustDirectionFunction_"],
         [function |-> "thrustMagnitudeFunction_"],
         [function |-> "massRateFunction_"],
         [function |-> "bodyMassFunction_"]>>

\* C24: a recomputing updateMembers( t ) calls thrustUpdateFunction_( t )
\* exactly once if and only if it is not empty, then the direction
\* function, then checks the norm, then reads the magnitude, the mass-rate
\* and the body-mass function exactly once each, and sets the stored time
\* to t only after all of them: a call that the check ends has invoked
\* nothing after the direction function and has not set the time.
C24_OrderWithinRecomputation ==
    [][ThrustCallOf("updateMembers") =>
          /\ lastCall'.recomputed
                => /\ lastCall'.invoked =
                          RecomputationOrder(lastCall'.argument)
                   /\ currentTime_' = lastCall'.argument
          /\ lastCall'.outcome = "runtime_error"
                => /\ lastCall'.invoked =
                          SubSeq(RecomputationOrder(lastCall'.argument), 1,
                                 Len(lastCall'.invoked))
                   /\ lastCall'.invoked[Len(lastCall'.invoked)].function
                          = "thrustDirectionFunction_"
                   /\ UNCHANGED currentTime_]_vars

\* A recomputation on an object that has an update function: five calls.
C24_RecomputedWithUpdateFunction ==
    /\ lastCall.operation = "updateMembers"
    /\ lastCall.recomputed
    /\ thrustUpdateFunction_ = "set"
    /\ Len(lastCall.invoked) = 5
    /\ lastCall.invoked[1].function = "thrustUpdateFunction_"
    /\ lastCall.invoked[1].argument = lastCall.argument
    /\ currentTime_ = lastCall.argument

\* C25: resetTime( t ) sets the stored time to t and calls the time-reset
\* function exactly once with t if and only if there is one; it changes
\* neither the acceleration nor the direction, the magnitude or the mass
\* rate; and the updateMembers( t ) that follows resetTime( ) with the
\* default NaN enters the recomputation for every t.
C25_ResetTimeFrame ==
    [][/\ ThrustCallOf("resetTime") =>
             /\ currentTime_' = lastCall'.argument
             /\ lastCall'.invoked =
                    (IF timeResetFunction_ = "set"
                     THEN <<[function |-> "timeResetFunction_",
                             argument |-> lastCall'.argument]>>
                     ELSE <<>>)
             /\ UNCHANGED <<currentAcceleration_,
                            currentAccelerationDirection_,
                            currentThrustMagnitude_, currentMassRate_>>
       /\ (/\ lastCall.operation = "resetTime"
           /\ lastCall.argument = NaN
           /\ ThrustCallOf("updateMembers"))
             => /\ lastCall'.invoked # <<>>
                /\ lastCall'.outcome = "returned"
                      => /\ lastCall'.recomputed
                         /\ currentTime_' = lastCall'.argument]_vars

\* resetTime( ) with the default argument on an object that has a
\* time-reset function, after a recomputation: the function was called once
\* with NaN and the acceleration is still that of the recomputation.
C25_ResetAfterRecomputation ==
    /\ lastCall.operation = "resetTime"
    /\ lastCall.argument = NaN
    /\ lastCall.before = One
    /\ timeResetFunction_ = "set"
    /\ Len(lastCall.invoked) = 1
    /\ currentTime_ = NaN
    /\ recomputed.made
    /\ recomputed.time = One
    /\ currentAcceleration_[1] = 3 * One

\* C26: whenever the stored time is a number t, the stored acceleration
\* and mass rate were computed by an updateMembers made with that time t.
C26_CacheCoherence ==
    currentTime_ # NaN
        => /\ recomputed.made
           /\ recomputed.time = currentTime_

\* C27: when updateMembers( t ) throws on the direction, the stored time,
\* acceleration, magnitude and mass rate are what they were before the
\* call and neither the magnitude nor the mass-rate nor the body-mass
\* function has been invoked; the updateMembers( t ) that follows with the
\* same t enters the recomputation again.
C27_ThrowLeavesState ==
    [][/\ (ThrustCallOf("updateMembers")
           /\ lastCall'.outcome = "runtime_error")
             => /\ UNCHANGED <<currentTime_, currentAcceleration_,
                               currentThrustMagnitude_, currentMassRate_>>
                /\ \A k \in 1..Len(lastCall'.invoked) :
                       lastCall'.invoked[k].function
                           \in {"thrustUpdateFunction_",
                                "thrustDirectionFunction_"}
       /\ (/\ lastCall.operation = "updateMembers"
           /\ lastCall.outcome = "runtime_error"
           /\ ThrustCallOf("updateMembers")
           /\ lastCall'.argument = lastCall.argument)
             => lastCall'.invoked # <<>>]_vars

\* updateMembers( 1 ) ended by the check on an object whose members were
\* computed for time 0: they are still those, and the time is still 0.
C27_ThrownAfterRecomputation ==
    /\ lastCall.operation = "updateMembers"
    /\ lastCall.outcome = "runtime_error"
    /\ lastCall.argument = One
    /\ lastCall.before = 0
    /\ currentTime_ = 0
    /\ recomputed.made
    /\ recomputed.time = 0
    /\ currentThrustMagnitude_ = recomputed.magnitude
    /\ currentMassRate_ = -recomputed.massRate
    /\ norm(currentAccelerationDirection_) > One + 10 * epsilon

====
